---- MODULE Spec2Model ----
(***************************************************************************)
(* Model of the collaborative document engine of refmd for one document:  *)
(* the Hub's room (replica, seq counter, bounded update channel,          *)
(* persistence task, hydration task, edit guard), the SnapshotService     *)
(* (persist_snapshot, write_markdown, archive_snapshot) and the           *)
(* RestoreSnapshot use case, over the update-log, snapshot and archive    *)
(* stores.                                                                 *)
(***************************************************************************)
EXTENDS Integers, Sequences, FiniteSets, TLC

(***************************************************************************)
(* Bounds of the model.                                                    *)
(***************************************************************************)
MaxUpdates == 2
MaxFailures == 1
MaxOps == 1
MaxApiCalls == 2
MaxEdits == 1
MaxNow == 1
MaxTicks == 4
MaxUtc == 1
MaxConversions == 3

(***************************************************************************)
(* Program constants.                                                      *)
(***************************************************************************)
ArchiveEvery == 100
ChannelCapacity == 512
DebounceMs == 600

\* the step of the clock that the debounce sleeps are measured with
TickMs == 300

Subs == {"A", "B"}
Callers == {"task", "all", "restore", "api"}

(***************************************************************************)
(* The CRDT replica (yrs Doc with one text "content"): a set of inserted   *)
(* items and a set of deleted item ids.  An update has the same shape and  *)
(* merges by union (commutative, associative, idempotent).                 *)
(***************************************************************************)
EmptyDoc == [ins |-> {}, del |-> {}]

NL == 0
Header == 0 - 1

ClientItem(k) == [id |-> k, txt |-> <<k>>]
ClientUpdate(k) == [ins |-> {ClientItem(k)}, del |-> {}]
OldItem == [id |-> 0, txt |-> <<9>>]
OldUpdate == [ins |-> {OldItem}, del |-> {}]

Visible(d) == {i \in d.ins : i.id \notin d.del}

RECURSIVE Concat(_)
Concat(S) ==
    IF S = {} THEN <<>>
    ELSE LET m == CHOOSE i \in S : \A j \in S : i.id <= j.id
         IN m.txt \o Concat(S \ {m})

\* txt.get_string(&txn)
GetString(d) == Concat(Visible(d))

\* txn.apply_update(update)
ApplyUpdate(d, u) == [ins |-> d.ins \cup u.ins, del |-> d.del \cup u.del]

\* the update an observer of the replica receives for a transaction d -> d2
TxnUpdate(d, d2) == [ins |-> d2.ins \ d.ins, del |-> d2.del \ d.del]

\* txn.encode_state_as_update_v1(&StateVector::default())
EncodeStateAsUpdate(d) == [ins |-> d.ins, del |-> d.del]

\* the write transaction of apply_snapshot: remove_range(0, len), insert(0, text)
ReplaceContent(d, text, newId) ==
    [ins |-> d.ins \cup (IF text # <<>> THEN {[id |-> newId, txt |-> text]} ELSE {}),
     del |-> d.del \cup {i.id : i \in Visible(d)}]

(***************************************************************************)
(* The update log store, the snapshot store (DocPersistencePort) and the   *)
(* hydration service.                                                      *)
(***************************************************************************)
None == 0 - 1

SeqsOf(l) == {l[i].seq : i \in 1..Len(l)}
Max(S) == CHOOSE m \in S : \A x \in S : x <= m

\* latest_update_seq: Option<i64>
LatestUpdateSeq(l) == IF l = <<>> THEN None ELSE Max(SeqsOf(l))

AppendAcceptsAny(l, s) == FALSE

\* append(doc, seq, bytes) fails with OutOfOrder if seq # last + 1
AppendOutOfOrder(l, s) == LatestUpdateSeq(l) # None /\ s # LatestUpdateSeq(l) + 1
AppendUpdate(l, s, b) == Append(l, [seq |-> s, upd |-> b])

\* prune_before(doc, cutoff): removes the entries with seq < cutoff
PruneUpdatesBefore(l, cutoff) == SelectSeq(l, LAMBDA e : e.seq >= cutoff)

VersionsOf(sn) == {sn[i].version : i \in 1..Len(sn)}

\* latest_snapshot_version: Option<i64>
LatestSnapshotVersion(sn) == IF sn = <<>> THEN None ELSE Max(VersionsOf(sn))

\* latest_snapshot_entry: Option<(version, bytes)>
LatestSnapshotEntry(sn) ==
    CHOOSE i \in 1..Len(sn) : sn[i].version = LatestSnapshotVersion(sn)

PersistAcceptsAny(sn, v) == FALSE

\* persist(doc, version, bytes) fails with OutOfOrder if version # last + 1
PersistOutOfOrder(sn, v) ==
    LatestSnapshotVersion(sn) # None /\ v # LatestSnapshotVersion(sn) + 1

\* prune(doc, keep): retains the newest keep records by version
PruneSnapshots(sn, keep) ==
    SelectSeq(sn, LAMBDA e : Cardinality({v \in VersionsOf(sn) : v > e.version}) < keep)

\* every update of the log applied to d (the merge is a union, in any order)
ApplyAll(d, l) ==
    [ins |-> d.ins \cup UNION {l[i].upd.ins : i \in 1..Len(l)},
     del |-> d.del \cup UNION {l[i].upd.del : i \in 1..Len(l)}]

\* hydrate: latest snapshot decoded into a fresh replica, then the log's updates
HydrateDoc(sn, l) ==
    ApplyAll(IF sn = <<>> THEN EmptyDoc ELSE sn[LatestSnapshotEntry(sn)].bytes, l)
HydrateLastSeq(l) == IF l = <<>> THEN 0 ELSE Max(SeqsOf(l))

(***************************************************************************)
(* State.                                                                  *)
(***************************************************************************)
VARIABLES
    inner,        \* Hub.inner: TRUE when the document's room is registered
    doc,          \* DocumentRoom.doc
    seq,          \* DocumentRoom.seq
    chan,         \* the room's mpsc channel (FIFO)
    sendq,        \* updates held by spawned send tasks, not yet in the channel
    pcP,          \* position of the room's persistence task
    cur,          \* the (seq, bytes) the persistence task is working on
    hyd,          \* the room's hydration task
    log,          \* update log store, in insertion order
    snaps,        \* snapshot store
    archives,     \* archive store
    file,         \* the on-disk Markdown file of the document
    editable,     \* the document's edit flag
    subs,         \* subscribers: attached?, protocol, frame past the guard
    ps,           \* persist_snapshot call frames, one per caller
    restore,      \* RestoreSnapshot::execute in flight
    lastAuto,     \* Hub.last_auto_archive entry of the document
    now,          \* Instant::now() as last observed
    interval,     \* Hub.auto_archive_interval
    appendCalls,  \* history: every call of append_update_with_seq
    pushed,       \* history: payloads in the order they entered the channel
    fails,        \* number of store / I/O failures so far
    ops,          \* calls so far: snapshot_all and restore ("op"), direct persist_snapshot ("api")
    sent,         \* history: the subscriber that sent client update k, for each k so far
    roPolled,     \* history: client updates polled by the guard while read-only
    awPolled,     \* history: awareness frames polled while read-only
    apiLast,      \* history: outcome of the last direct persist_snapshot call
    fresh,        \* history: TRUE when the document started empty
    trimmed,      \* history: TRUE once entries have been pruned or cleared from the log
    archived,     \* the last direct archive_snapshot call: its arguments and its record
    save_flags,   \* Hub.save_flags: TRUE when the document has an entry
    saveTasks,    \* the debounce tasks spawned by the observer and not yet finished
    spawned,      \* number of debounce tasks spawned so far
    clock,        \* the time in ms that tokio's sleep is measured with
    docType,      \* the document's record: "document", "folder" or "missing"
    archived_at,  \* the document's record: TRUE when archived_at is set
    lastObserved, \* history: the time of the last observed update
    bcast,        \* history: the frames delivered to the room's broadcast group
    runs,         \* history: the materializations started by debounce tasks
    wmLog,        \* history: the write_markdown calls that returned
    utc,          \* Utc::now().timestamp()
    asset,        \* the signed plugin-asset URL and the last call made with it
    cwd,          \* the working directory of the process
    workdir_lock, \* PANDOC_WORKDIR_LOCK: the conversion that holds it, or "free"
    conv,         \* render_with_pandoc: the position of every conversion's blocking closure
    restoreFailed, \* history: a guard's drop could not restore the working directory
    creating,     \* the get_or_create calls that found no room and are building one
    twin          \* a second room built for the document by a concurrent get_or_create

roomVars == <<inner, doc, seq, chan, sendq, pcP, cur, hyd>>
storeVars == <<log, snaps, archives, file>>
subVars == <<editable, subs>>
opVars == <<ps, restore>>
saveObs == <<saveTasks, spawned, lastObserved, bcast>>
saveVars == <<save_flags, clock, docType, archived_at, runs, wmLog>>
cwdVars == <<cwd, workdir_lock, conv, restoreFailed>>
signVars == <<utc, asset, cwdVars>>
twinVars == <<creating, twin>>
restExt == <<archived, saveVars, signVars, twinVars>>
extVars == <<saveObs, restExt>>
timeVars == <<lastAuto, now, interval, extVars>>
histVars == <<appendCalls, pushed, fails, ops, sent, roPolled, awPolled, apiLast, fresh, trimmed>>
vars == <<roomVars, storeVars, subVars, opVars, timeVars, histVars>>

NoFrame == [kind |-> "none", k |-> 0]
UpdateFrame(k) == [kind |-> "update", k |-> k]
AwarenessFrame == [kind |-> "awareness", k |-> 0]
\* a frame whose first message is a sync update and whose later bytes do not decode
MalformedFrame(k) == [kind |-> "malformed", k |-> k]
Step2Frame(k) == [kind |-> "step2", k |-> k]
Step1Frame == [kind |-> "step1", k |-> 0]
GarbageFrame == [kind |-> "garbage", k |-> 0]
\* the other items of the peer's stream: Some(Err(err)) and None
StreamError == [kind |-> "error", k |-> 0]
StreamEnd == [kind |-> "end", k |-> 0]
StreamClosed(item) == item.kind \in {"error", "end"}

\* the messages a frame's bytes decode to, "Garbage" for bytes that do not decode
Messages(f) ==
    CASE f.kind = "update" -> <<"Update">>
      [] f.kind = "step2" -> <<"SyncStep2">>
      [] f.kind = "step1" -> <<"SyncStep1">>
      [] f.kind = "awareness" -> <<"Awareness">>
      [] f.kind = "malformed" -> <<"Update", "Garbage">>
      [] f.kind = "garbage" -> <<"Garbage">>
      [] OTHER -> <<>>

\* SnapshotPersistOptions::default()
DefaultOptions ==
    [clear_updates |-> FALSE, skip_if_unchanged |-> FALSE,
     prune_snapshots |-> None, prune_updates_before |-> None]

PsIdle ==
    [pc |-> "idle", bin |-> EmptyDoc, cur |-> 0, prev |-> EmptyDoc, hasPrev |-> FALSE,
     opts |-> DefaultOptions, version |-> 0, persisted |-> FALSE,
     persistFailed |-> FALSE, inserted |-> FALSE, touched |-> {}]

RestoreIdle ==
    [pc |-> "idle", src |-> EmptyDoc, label |-> <<>>, result |-> "none",
     quiet |-> FALSE, sent0 |-> 0, aid |-> 0, upd |-> EmptyDoc]
HydIdle == [pc |-> "none", state |-> EmptyDoc, last |-> 0]
NoCur == [s |-> 0, bytes |-> EmptyDoc]

NoTwin ==
    [on |-> FALSE, doc |-> EmptyDoc, seq |-> 0, chan |-> <<>>, sendq |-> {},
     pcP |-> "none", cur |-> NoCur, hyd |-> HydIdle, members |-> {}]
NoArchived == [called |-> FALSE]

\* sha256_hex and len of the snapshot bytes
Sha256Hex(b) == <<"sha256", b>>
ByteLen(b) == Cardinality(b.ins) + Cardinality(b.del)

\* a document with history: two snapshots, a manual archive of the second and
\* the log's newest entry
OldDoc == ApplyUpdate(EmptyDoc, OldUpdate)
OldSeqs == {1, ArchiveEvery - 1}
OldLog(n) == <<[seq |-> n, upd |-> OldUpdate]>>
OldSnaps ==
    <<[version |-> 1, bytes |-> EncodeStateAsUpdate(EmptyDoc)],
      [version |-> 2, bytes |-> EncodeStateAsUpdate(OldDoc)]>>
OldArchive ==
    [id |-> 1, version |-> 2, bytes |-> EncodeStateAsUpdate(OldDoc), label |-> <<"Manual">>,
     kind |-> "manual", byte_size |-> ByteLen(EncodeStateAsUpdate(OldDoc)),
     content_hash |-> Sha256Hex(EncodeStateAsUpdate(OldDoc))]

AutoArchiveIntervals == {0, 1}

\* document_record(doc_id): Some(document), Some(folder) or None
DocTypes == {"document", "folder", "missing"}

Init ==
    /\ inner = FALSE /\ doc = EmptyDoc /\ seq = 0 /\ chan = <<>> /\ sendq = {}
    /\ pcP = "none" /\ cur = NoCur /\ hyd = HydIdle
    /\ fresh \in BOOLEAN
    /\ IF fresh
       THEN log = <<>> /\ snaps = <<>> /\ archives = <<>>
       ELSE /\ \E n \in OldSeqs : log = OldLog(n)
            /\ snaps = OldSnaps
            /\ archives = <<OldArchive>>
    /\ file = <<>>
    /\ editable = TRUE
    /\ subs = [s \in Subs |-> [on |-> FALSE, ro |-> FALSE, frame |-> NoFrame]]
    /\ ps = [c \in Callers |-> PsIdle]
    /\ restore = RestoreIdle
    /\ lastAuto = None /\ now = 0 /\ interval \in AutoArchiveIntervals
    /\ appendCalls = <<>> /\ pushed = <<>> /\ fails = 0 /\ ops = [k \in {"op", "api"} |-> 0] /\ sent = <<>>
    /\ roPolled = {} /\ awPolled = 0
    /\ apiLast = [ok |-> FALSE, skip |-> FALSE, bin |-> EmptyDoc, version |-> 0]
    /\ trimmed = (log # <<>> /\ log[1].seq # 1)
    /\ archived = NoArchived
    /\ save_flags = FALSE /\ saveTasks = {} /\ spawned = 0 /\ clock = 0
    /\ docType \in DocTypes /\ archived_at = FALSE
    /\ lastObserved = 0 /\ bcast = <<>> /\ runs = <<>> /\ wmLog = <<>>
    /\ utc = 0 /\ asset = [pc |-> "none"]
    /\ cwd = "home" /\ workdir_lock = "free" /\ restoreFailed = FALSE
    /\ conv = [c \in {"c1", "c2"} |->
                 [pc |-> "idle", original |-> "none", prior |-> "none", n |-> 0]]
    /\ creating = {} /\ twin = NoTwin

\* a store or I/O call fails (TransientIO)
Fail ==
    /\ fails < MaxFailures
    /\ fails' = fails + 1

(***************************************************************************)
(* Hub::get_or_create and the observer installed on the room's replica.    *)
(***************************************************************************)
ObservedWholeState(d, d2) == IF d2 = d THEN {} ELSE {EncodeStateAsUpdate(d2)}

\* observe_update_v1: every transaction that changes the replica spawns a
\* task that sends the transaction's update to the channel
Observed(d, d2) == IF d2 = d THEN {} ELSE {TxnUpdate(d, d2)}

\* the broadcast group's own observer: the update of every transaction that
\* changes the replica is delivered to the group when the transaction commits
ObserverFrame(u) == [src |-> "observer", upd |-> u]
ExplicitFrame(u) == [src |-> "explicit", upd |-> u]
HydrateFrame(u) == [src |-> "hydrate", upd |-> u]
Broadcast(d, d2) == IF d2 = d THEN <<>> ELSE <<ObserverFrame(TxnUpdate(d, d2))>>

\* observe_update_v1: every such transaction also spawns a debounce task
Scheduled(tasks, n, d, d2) ==
    IF d2 = d THEN tasks
    ELSE tasks \cup {[id |-> n + 1, pc |-> "set", wake |-> 0, contents |-> <<>>]}

ObserveSave(d, d2) ==
    /\ saveTasks' = Scheduled(saveTasks, spawned, d, d2)
    /\ spawned' = IF d2 = d THEN spawned ELSE spawned + 1
    /\ lastObserved' = IF d2 = d THEN lastObserved ELSE clock

\* start_seq = latest_update_seq(doc).unwrap_or(0)
StartSeq(l) == IF LatestUpdateSeq(l) = None THEN 0 ELSE LatestUpdateSeq(l)

GetOrCreate ==
    IF inner
    THEN UNCHANGED roomVars
    ELSE /\ inner' = TRUE
         /\ doc' = EmptyDoc
         /\ seq' = StartSeq(log)
         /\ chan' = <<>> /\ sendq' = {}
         /\ pcP' = "recv" /\ cur' = NoCur
         /\ hyd' = [pc |-> "read", state |-> EmptyDoc, last |-> 0]

\* latest_update_seq fails: get_or_create returns the error, no room is registered
GetOrCreateFails ==
    /\ ~inner /\ Fail
    /\ UNCHANGED <<roomVars, storeVars, subVars, opVars, timeVars>>
    /\ UNCHANGED <<appendCalls, pushed, ops, sent, roPolled, awPolled, apiLast, fresh, trimmed>>

(***************************************************************************)
(* Hub::subscribe, the edit guard and the protocol handlers.               *)
(***************************************************************************)
\* effective_can_edit = can_edit && edit_flag.load()
EffectiveCanEdit(can_edit, flag) == can_edit /\ flag

Subscribe(s, can_edit) ==
    /\ ~subs[s].on
    /\ GetOrCreate
    /\ subs' = [subs EXCEPT ![s] =
                  [on |-> TRUE, ro |-> ~EffectiveCanEdit(can_edit, editable),
                   frame |-> NoFrame]]
    /\ UNCHANGED <<storeVars, editable, opVars, timeVars, histVars>>

\* the frame's first message is a sync update or a sync step 2
CarriesUpdate(f) == f.kind \in {"update", "malformed", "step2"}

FrameSummary(ok, has_update, has_awareness) ==
    [ok |-> ok, has_update |-> has_update, has_awareness |-> has_awareness]

IsUpdateMessageNoStep2(m) == m = "Update"

\* the match arm Sync(Update) | Sync(SyncStep2) of analyse_frame
IsUpdateMessage(m) == m \in {"Update", "SyncStep2"}

\* analyse_frame: `message?` returns the decode error of any message of the
\* frame (ok = FALSE), else the summary of the messages read
RECURSIVE AnalyseFrame(_, _)
AnalyseFrame(msgs, summary) ==
    IF msgs = <<>> THEN summary
    ELSE IF Head(msgs) = "Garbage" THEN FrameSummary(FALSE, FALSE, FALSE)
    ELSE AnalyseFrame(Tail(msgs),
            [summary EXCEPT !.has_update = @ \/ IsUpdateMessage(Head(msgs)),
                            !.has_awareness = @ \/ Head(msgs) = "Awareness"])

\* analyse_frame(frame) is Err
DecodeFails(f) == ~AnalyseFrame(Messages(f), FrameSummary(TRUE, FALSE, FALSE)).ok

\* analyse_frame(frame) = Ok(summary) with summary.has_update
HasUpdate(f) ==
    /\ AnalyseFrame(Messages(f), FrameSummary(TRUE, FALSE, FALSE)).ok
    /\ AnalyseFrame(Messages(f), FrameSummary(TRUE, FALSE, FALSE)).has_update

\* GuardedStream::poll_next: the frame is dropped and the loop continues
GuardDrops(flag, f) == ~StreamClosed(f) /\ ~flag /\ HasUpdate(f)

\* the peer's next frame reaches the guard
GuardPoll(s, f) ==
    /\ subs[s].on /\ subs[s].frame = NoFrame
    /\ CarriesUpdate(f) => f.k = Len(sent) + 1
    /\ sent' = IF CarriesUpdate(f) THEN Append(sent, s) ELSE sent
    /\ roPolled' = IF CarriesUpdate(f) /\ ~editable THEN roPolled \cup {f.k} ELSE roPolled
    /\ awPolled' = IF f.kind = "awareness" /\ ~editable THEN 1 ELSE awPolled
    /\ subs' = [subs EXCEPT ![s].frame = IF GuardDrops(editable, f) THEN NoFrame ELSE f]
    /\ UNCHANGED <<roomVars, storeVars, editable, opVars, timeVars>>
    /\ UNCHANGED <<appendCalls, pushed, fails, ops, apiLast, fresh, trimmed>>

HandledDocDefault(d, ro, f) ==
    IF CarriesUpdate(f) THEN ApplyUpdate(d, ClientUpdate(f.k)) ELSE d

\* DefaultProtocol applies an update to the replica, ReadOnlyProtocol consumes it
HandledDoc(d, ro, f) ==
    IF CarriesUpdate(f) /\ ~ro THEN ApplyUpdate(d, ClientUpdate(f.k)) ELSE d

Detached == [on |-> FALSE, ro |-> FALSE, frame |-> NoFrame]

\* the broadcast group handles the messages of the frame in order; the bytes
\* that do not decode are ignored or end the subscription with an error
HandleFrame(s) ==
    /\ subs[s].on /\ subs[s].frame # NoFrame
    /\ s \notin twin.members
    /\ doc' = HandledDoc(doc, subs[s].ro, subs[s].frame)
    /\ sendq' = sendq \cup Observed(doc, doc')
    /\ \E ends \in IF StreamClosed(subs[s].frame) THEN {TRUE}
                     ELSE IF DecodeFails(subs[s].frame) THEN BOOLEAN ELSE {FALSE} :
          subs' = [subs EXCEPT ![s] = IF ends THEN Detached ELSE [@ EXCEPT !.frame = NoFrame]]
    /\ ObserveSave(doc, doc')
    /\ bcast' = bcast \o Broadcast(doc, doc')
    /\ UNCHANGED <<inner, seq, chan, pcP, cur, hyd>>
    /\ UNCHANGED <<storeVars, editable, opVars, lastAuto, now, interval, restExt, histVars>>

\* Hub::set_document_editable
SetDocumentEditable(b) ==
    /\ editable # b
    /\ editable' = b
    /\ UNCHANGED <<roomVars, storeVars, subs, opVars, timeVars, histVars>>

(***************************************************************************)
(* The per-update send task and the room's persistence task.               *)
(***************************************************************************)
\* tx_clone.send(bytes).await
SendTask(u) ==
    /\ u \in sendq
    /\ Len(chan) < ChannelCapacity
    /\ sendq' = sendq \ {u}
    /\ chan' = Append(chan, u)
    /\ pushed' = Append(pushed, u)
    /\ UNCHANGED <<inner, doc, seq, pcP, cur, hyd>>
    /\ UNCHANGED <<storeVars, subVars, opVars, timeVars>>
    /\ UNCHANGED <<appendCalls, fails, ops, sent, roPolled, awPolled, apiLast, fresh, trimmed>>

\* *guard += 1
NextSeq(s) == s + 1

\* rx.recv(), persist_seq.lock(), *guard += 1
PersistRecv ==
    /\ pcP = "recv" /\ chan # <<>>
    /\ seq' = NextSeq(seq)
    /\ cur' = [s |-> seq', bytes |-> Head(chan)]
    /\ chan' = Tail(chan)
    /\ pcP' = "append"
    /\ UNCHANGED <<inner, doc, sendq, hyd>>
    /\ UNCHANGED <<storeVars, subVars, opVars, timeVars, histVars>>

\* s % 100 == 0 && !auto_archive_interval.is_zero()
AutoArchiveDue(s, iv) == s % ArchiveEvery = 0 /\ iv # 0

AfterAppend(s, iv) == IF AutoArchiveDue(s, iv) THEN "gate" ELSE "recv"

\* append_update_with_seq returns Ok, or OutOfOrder, which is logged
PersistAppend ==
    /\ pcP = "append"
    /\ log' = IF AppendOutOfOrder(log, cur.s) THEN log
              ELSE AppendUpdate(log, cur.s, cur.bytes)
    /\ appendCalls' = Append(appendCalls,
            [seq |-> cur.s, upd |-> cur.bytes, ok |-> ~AppendOutOfOrder(log, cur.s)])
    /\ pcP' = AfterAppend(cur.s, interval)
    /\ cur' = IF pcP' = "recv" THEN NoCur ELSE cur
    /\ UNCHANGED <<inner, doc, seq, chan, sendq, hyd>>
    /\ UNCHANGED <<snaps, archives, file, subVars, opVars, timeVars>>
    /\ UNCHANGED <<pushed, fails, ops, sent, roPolled, awPolled, apiLast, fresh, trimmed>>

AfterFailureStops(next) == "stopped"

\* tracing::error!(..): the error is logged and the task goes on to `next`
AfterFailure(next) == next

\* append_update_with_seq fails: the error is logged and the loop goes on
PersistAppendFails ==
    /\ pcP = "append" /\ Fail
    /\ appendCalls' = Append(appendCalls, [seq |-> cur.s, upd |-> cur.bytes, ok |-> FALSE])
    /\ pcP' = AfterFailure(AfterAppend(cur.s, interval))
    /\ cur' = IF pcP' = "gate" THEN cur ELSE NoCur
    /\ UNCHANGED <<inner, doc, seq, chan, sendq, hyd>>
    /\ UNCHANGED <<storeVars, subVars, opVars, timeVars>>
    /\ UNCHANGED <<pushed, ops, sent, roPolled, awPolled, apiLast, fresh, trimmed>>

(***************************************************************************)
(* The room's background hydration task.                                   *)
(***************************************************************************)
HydrateRead ==
    /\ hyd.pc = "read"
    /\ hyd' = [pc |-> "apply", state |-> HydrateDoc(snaps, log), last |-> HydrateLastSeq(log)]
    /\ UNCHANGED <<inner, doc, seq, chan, sendq, pcP, cur>>
    /\ UNCHANGED <<storeVars, subVars, opVars, timeVars, histVars>>

\* Err(e) => "hydrate_failed"
HydrateReadFails ==
    /\ hyd.pc = "read" /\ Fail
    /\ hyd' = [HydIdle EXCEPT !.pc = "done"]
    /\ UNCHANGED <<inner, doc, seq, chan, sendq, pcP, cur>>
    /\ UNCHANGED <<storeVars, subVars, opVars, timeVars>>
    /\ UNCHANGED <<appendCalls, pushed, ops, sent, roPolled, awPolled, apiLast, fresh, trimmed>>

\* txn.apply_update(update) on the room's replica
HydrateApply ==
    /\ hyd.pc = "apply"
    /\ doc' = ApplyUpdate(doc, EncodeStateAsUpdate(hyd.state))
    /\ sendq' = sendq \cup Observed(doc, doc')
    /\ hyd' = [hyd EXCEPT !.pc = "seq", !.state = EmptyDoc]
    /\ ObserveSave(doc, doc')
    /\ bcast' = bcast \o Broadcast(doc, doc')
    /\ UNCHANGED <<inner, seq, chan, pcP, cur>>
    /\ UNCHANGED <<storeVars, subVars, opVars, lastAuto, now, interval, restExt, histVars>>

HydratedSeqAssigned(s, last) == last

\* if hydrated_state.last_seq > *guard { *guard = hydrated_state.last_seq }
HydratedSeq(s, last) == IF last > s THEN last ELSE s

SeqLockHeldAtRecv == pcP = "none"

\* the seq mutex is held by the persistence task for a whole loop iteration
SeqLockFree == pcP \in {"none", "recv"}

HydrateSeq ==
    /\ hyd.pc = "seq" /\ SeqLockFree
    /\ seq' = HydratedSeq(seq, hyd.last)
    /\ hyd' = [HydIdle EXCEPT !.pc = "done"]
    /\ bcast' = Append(bcast, HydrateFrame(EncodeStateAsUpdate(doc)))
    /\ UNCHANGED <<inner, doc, chan, sendq, pcP, cur>>
    /\ UNCHANGED <<storeVars, subVars, opVars, lastAuto, now, interval>>
    /\ UNCHANGED <<saveTasks, spawned, lastObserved, restExt, histVars>>

(***************************************************************************)
(* Hub::get_or_create step by step: the lookup under the read lock, the     *)
(* construction of the room, and its registration under the write lock.    *)
(* A room built while another one was registered lives on as `twin`, with  *)
(* its own replica, channel, persistence task, hydration task and counter. *)
(***************************************************************************)
Attached(can_edit) ==
    [on |-> TRUE, ro |-> ~EffectiveCanEdit(can_edit, editable), frame |-> NoFrame]

\* self.inner.read().await.get(doc_id) is Some(r): the registered room is returned
GetOrCreateHit(s) ==
    /\ ~subs[s].on /\ s \notin creating /\ inner
    /\ subs' = [subs EXCEPT ![s] = Attached(TRUE)]
    /\ twin' = IF twin.on THEN [twin EXCEPT !.members = @ \cup {s}] ELSE twin
    /\ UNCHANGED <<roomVars, storeVars, editable, opVars, lastAuto, now, interval>>
    /\ UNCHANGED <<archived, saveObs, saveVars, signVars, creating, histVars>>

\* the lookup finds no room: the call goes on to build one
GetOrCreateMiss(s) ==
    /\ ~subs[s].on /\ s \notin creating /\ ~inner
    /\ creating' = creating \cup {s}
    /\ UNCHANGED <<roomVars, storeVars, subVars, opVars, lastAuto, now, interval>>
    /\ UNCHANGED <<archived, saveObs, saveVars, signVars, twin, histVars>>

\* latest_update_seq, the tasks and the observer of the new room, and
\* self.inner.write().await.insert(doc_id, room) without a second lookup
GetOrCreateInsert(s) ==
    /\ s \in creating
    /\ creating' = creating \ {s}
    /\ IF ~inner
       THEN GetOrCreate /\ twin' = twin
       ELSE /\ twin' = [on |-> TRUE, doc |-> EmptyDoc, seq |-> StartSeq(log),
                        chan |-> <<>>, sendq |-> {}, pcP |-> "recv", cur |-> NoCur,
                        hyd |-> [pc |-> "read", state |-> EmptyDoc, last |-> 0],
                        members |-> {s}]
            /\ UNCHANGED roomVars
    /\ subs' = [subs EXCEPT ![s] = Attached(TRUE)]
    /\ UNCHANGED <<storeVars, editable, opVars, lastAuto, now, interval>>
    /\ UNCHANGED <<archived, saveObs, saveVars, signVars, histVars>>

\* Uuid::parse_str(doc_id)? or latest_update_seq(..).await? returns the error
\* before the room is built
GetOrCreateAborts(s) ==
    /\ s \in creating /\ Fail
    /\ creating' = creating \ {s}
    /\ UNCHANGED <<roomVars, storeVars, subVars, opVars, lastAuto, now, interval>>
    /\ UNCHANGED <<archived, saveObs, saveVars, signVars, twin>>
    /\ UNCHANGED <<appendCalls, pushed, ops, sent, roPolled, awPolled, apiLast, fresh, trimmed>>

\* the frame of a subscriber of the second room is handled on its replica
TwinHandleFrame(s) ==
    /\ subs[s].on /\ subs[s].frame # NoFrame
    /\ s \in twin.members
    /\ LET d2 == HandledDoc(twin.doc, subs[s].ro, subs[s].frame)
       IN /\ twin' = [twin EXCEPT !.doc = d2, !.sendq = @ \cup Observed(twin.doc, d2)]
          /\ ObserveSave(twin.doc, d2)
          /\ bcast' = bcast
    /\ \E ends \in IF StreamClosed(subs[s].frame) THEN {TRUE}
                     ELSE IF DecodeFails(subs[s].frame) THEN BOOLEAN ELSE {FALSE} :
          subs' = [subs EXCEPT ![s] = IF ends THEN Detached ELSE [@ EXCEPT !.frame = NoFrame]]
    /\ UNCHANGED <<roomVars, storeVars, editable, opVars, lastAuto, now, interval>>
    /\ UNCHANGED <<archived, saveVars, signVars, creating, histVars>>

\* tx_clone.send(bytes).await of the second room
TwinSendTask(u) ==
    /\ u \in twin.sendq
    /\ Len(twin.chan) < ChannelCapacity
    /\ twin' = [twin EXCEPT !.sendq = @ \ {u}, !.chan = Append(@, u)]
    /\ UNCHANGED <<roomVars, storeVars, subVars, opVars, lastAuto, now, interval>>
    /\ UNCHANGED <<archived, saveObs, saveVars, signVars, creating, histVars>>

\* the persistence task of the second room: rx.recv(), *guard += 1
TwinPersistRecv ==
    /\ twin.pcP = "recv" /\ twin.chan # <<>>
    /\ twin' = [twin EXCEPT !.seq = NextSeq(@), !.chan = Tail(@), !.pcP = "append",
                            !.cur = [s |-> NextSeq(twin.seq), bytes |-> Head(twin.chan)]]
    /\ UNCHANGED <<roomVars, storeVars, subVars, opVars, lastAuto, now, interval>>
    /\ UNCHANGED <<archived, saveObs, saveVars, signVars, creating, histVars>>

\* the persistence task of the second room: append_update_with_seq
TwinPersistAppend ==
    /\ twin.pcP = "append"
    /\ log' = IF AppendOutOfOrder(log, twin.cur.s) THEN log
              ELSE AppendUpdate(log, twin.cur.s, twin.cur.bytes)
    /\ appendCalls' = Append(appendCalls,
            [seq |-> twin.cur.s, upd |-> twin.cur.bytes,
             ok |-> ~AppendOutOfOrder(log, twin.cur.s)])
    /\ twin' = [twin EXCEPT !.pcP = AfterAppend(twin.cur.s, interval),
                            !.cur = IF AfterAppend(twin.cur.s, interval) = "recv"
                                    THEN NoCur ELSE @]
    /\ UNCHANGED <<roomVars, snaps, archives, file, subVars, opVars, lastAuto, now, interval>>
    /\ UNCHANGED <<archived, saveObs, saveVars, signVars, creating>>
    /\ UNCHANGED <<pushed, fails, ops, sent, roPolled, awPolled, apiLast, fresh, trimmed>>

\* the hydration task of the second room
TwinHydrateRead ==
    /\ twin.hyd.pc = "read"
    /\ twin' = [twin EXCEPT !.hyd = [pc |-> "apply", state |-> HydrateDoc(snaps, log),
                                     last |-> HydrateLastSeq(log)]]
    /\ UNCHANGED <<roomVars, storeVars, subVars, opVars, lastAuto, now, interval>>
    /\ UNCHANGED <<archived, saveObs, saveVars, signVars, creating, histVars>>

TwinHydrateApply ==
    /\ twin.hyd.pc = "apply"
    /\ LET d2 == ApplyUpdate(twin.doc, EncodeStateAsUpdate(twin.hyd.state))
       IN /\ twin' = [twin EXCEPT !.doc = d2, !.sendq = @ \cup Observed(twin.doc, d2),
                                  !.hyd = [@ EXCEPT !.pc = "seq", !.state = EmptyDoc]]
          /\ ObserveSave(twin.doc, d2)
          /\ bcast' = bcast
    /\ UNCHANGED <<roomVars, storeVars, subVars, opVars, lastAuto, now, interval>>
    /\ UNCHANGED <<archived, saveVars, signVars, creating, histVars>>

TwinHydrateSeq ==
    /\ twin.hyd.pc = "seq" /\ twin.pcP \in {"none", "recv"}
    /\ twin' = [twin EXCEPT !.seq = HydratedSeq(@, twin.hyd.last),
                            !.hyd = [HydIdle EXCEPT !.pc = "done"]]
    /\ UNCHANGED <<roomVars, storeVars, subVars, opVars, lastAuto, now, interval>>
    /\ UNCHANGED <<archived, saveObs, saveVars, signVars, creating, histVars>>

TwinNext ==
    \/ \E u \in twin.sendq : TwinSendTask(u)
    \/ TwinPersistRecv
    \/ TwinPersistAppend
    \/ TwinHydrateRead
    \/ TwinHydrateApply
    \/ TwinHydrateSeq

(***************************************************************************)
(* SnapshotService::archive_snapshot and write_markdown.                   *)
(***************************************************************************)
\* SnapshotArchiveKind::as_str
KindStr(kind) ==
    CASE kind = "Manual" -> "manual"
      [] kind = "Automatic" -> "auto"
      [] kind = "Restore" -> "restore"

\* an i64 in two's complement as four 16-bit limbs, least significant first
Limb == 65536
I64(n) ==
    <<n % Limb, (n \div Limb) % Limb,
      IF n < 0 THEN Limb - 1 ELSE 0, IF n < 0 THEN Limb - 1 ELSE 0>>

\* `input.version as i32`: the low 32 bits of the i64, read as a signed number
AsI32(v) ==
    IF v[2] >= Limb \div 2 THEN (v[2] - Limb) * Limb + v[1] ELSE v[2] * Limb + v[1]

\* the record returned by the repository's insert: the row as it was stored
\* (version bound as i32 and read back as i64)
ArchiveRecord(id, bytes, version, label, kind) ==
    [id |-> id, version |-> AsI32(version), bytes |-> bytes,
     label |-> label, kind |-> KindStr(kind),
     byte_size |-> ByteLen(bytes), content_hash |-> Sha256Hex(bytes)]

ArchiveSnapshot(arch, bytes, version, label, kind) ==
    Append(arch, ArchiveRecord(Len(arch) + 1, bytes, I64(version), label, kind))

\* the versions passed to a direct archive_snapshot call: small ones, the
\* largest i32, 2^31 and 2^32 + 1
ArchiveVersions ==
    {I64(1), I64(2), I64(2147483647), <<0, Limb \div 2, 0, 0>>, <<1, 0, 1, 0>>}

ArchiveKinds == {"Manual", "Automatic", "Restore"}

\* SnapshotService::archive_snapshot called with a version and snapshot bytes
ArchiveCall(bytes, version, label, kind) ==
    /\ archived' = [called |-> TRUE, bytes |-> bytes, version |-> version, kind |-> kind,
                    record |-> ArchiveRecord(1, bytes, version, label, kind)]
    /\ UNCHANGED <<roomVars, storeVars, subVars, opVars, histVars>>
    /\ UNCHANGED <<lastAuto, now, interval, saveObs, saveVars, signVars, twinVars>>

\* "---\nid: {}\ntitle: {}\n---\n\n{}" and the terminating newline
FormatMarkdown(contents) ==
    LET formatted == <<Header, NL>> \o contents
    IN IF formatted[Len(formatted)] # NL THEN Append(formatted, NL) ELSE formatted

ShouldWriteAlways(existing, bytes) == TRUE

\* should_write: the existing bytes differ (or cannot be read)
ShouldWrite(existing, bytes) == existing # bytes

\* the record exists and is not a folder: write_markdown goes on to the file
Materializes(t) == t = "document"

WriteMarkdown(existing, d) ==
    IF ShouldWrite(existing, FormatMarkdown(GetString(d)))
    THEN FormatMarkdown(GetString(d))
    ELSE existing

(***************************************************************************)
(* The debounce task spawned by the observer for every observed update and *)
(* the write_markdown call it makes.                                       *)
(***************************************************************************)
TaskStep(t, pc) == (saveTasks \ {t}) \cup {[t EXCEPT !.pc = pc]}

\* m.insert(doc_id, true); sleep(Duration::from_millis(600))
DebounceSet(t) ==
    /\ t \in saveTasks /\ t.pc = "set"
    /\ save_flags' = TRUE
    /\ saveTasks' = (saveTasks \ {t}) \cup {[t EXCEPT !.pc = "sleep", !.wake = clock + DebounceMs]}
    /\ UNCHANGED <<roomVars, storeVars, subVars, opVars, histVars>>
    /\ UNCHANGED <<lastAuto, now, interval, archived, spawned, lastObserved, bcast>>
    /\ UNCHANGED <<clock, docType, archived_at, runs, wmLog, signVars, twinVars>>

\* should_run = m.remove(&doc_id).is_some()
ShouldRun(flag) == flag

\* the sleep is over: the task removes the flag and runs if it was set
DebounceWake(t) ==
    /\ t \in saveTasks /\ t.pc = "sleep" /\ clock >= t.wake
    /\ save_flags' = FALSE
    /\ IF ShouldRun(save_flags)
       THEN /\ saveTasks' = TaskStep(t, "run")
            /\ runs' = Append(runs, [task |-> t.id, last |-> spawned,
                                      quiet |-> clock - lastObserved])
       ELSE /\ saveTasks' = saveTasks \ {t}
            /\ runs' = runs
    /\ UNCHANGED <<roomVars, storeVars, subVars, opVars, histVars>>
    /\ UNCHANGED <<lastAuto, now, interval, archived, spawned, lastObserved, bcast>>
    /\ UNCHANGED <<clock, docType, archived_at, wmLog, signVars, twinVars>>

\* write_markdown: document_record, the folder check and extract_markdown
WmExtract(t) ==
    /\ t \in saveTasks /\ t.pc = "run"
    /\ IF Materializes(docType)
       THEN /\ saveTasks' = (saveTasks \ {t}) \cup
                    {[t EXCEPT !.pc = "write", !.contents = GetString(doc)]}
            /\ wmLog' = wmLog
       ELSE /\ saveTasks' = saveTasks \ {t}
            /\ wmLog' = Append(wmLog, [bytes |-> <<>>, before |-> file, written |-> FALSE,
                                        read |-> FALSE, ok |-> TRUE])
    /\ UNCHANGED <<roomVars, storeVars, subVars, opVars, histVars>>
    /\ UNCHANGED <<lastAuto, now, interval, archived, spawned, lastObserved, bcast>>
    /\ UNCHANGED <<save_flags, clock, docType, archived_at, runs, signVars, twinVars>>

\* read_bytes, the comparison and write_bytes
WmWrite(t) ==
    /\ t \in saveTasks /\ t.pc = "write"
    /\ file' = IF ShouldWrite(file, FormatMarkdown(t.contents))
               THEN FormatMarkdown(t.contents) ELSE file
    /\ wmLog' = Append(wmLog, [bytes |-> FormatMarkdown(t.contents), before |-> file,
                                written |-> ShouldWrite(file, FormatMarkdown(t.contents)),
                                read |-> TRUE, ok |-> TRUE])
    /\ saveTasks' = saveTasks \ {t}
    /\ UNCHANGED <<roomVars, log, snaps, archives, subVars, opVars, histVars>>
    /\ UNCHANGED <<lastAuto, now, interval, archived, spawned, lastObserved, bcast>>
    /\ UNCHANGED <<save_flags, clock, docType, archived_at, runs, signVars, twinVars>>

\* read_bytes fails: Err(_) => true, the bytes are written
WmWriteUnreadable(t) ==
    /\ t \in saveTasks /\ t.pc = "write" /\ Fail
    /\ file' = FormatMarkdown(t.contents)
    /\ wmLog' = Append(wmLog, [bytes |-> FormatMarkdown(t.contents), before |-> file,
                                written |-> TRUE, read |-> FALSE, ok |-> TRUE])
    /\ saveTasks' = saveTasks \ {t}
    /\ UNCHANGED <<roomVars, log, snaps, archives, subVars, opVars>>
    /\ UNCHANGED <<appendCalls, pushed, ops, sent, roPolled, awPolled, apiLast, fresh, trimmed>>
    /\ UNCHANGED <<lastAuto, now, interval, archived, spawned, lastObserved, bcast>>
    /\ UNCHANGED <<save_flags, clock, docType, archived_at, runs, signVars, twinVars>>

\* write_bytes fails: "debounced_save_failed"
WmWriteFails(t) ==
    /\ t \in saveTasks /\ t.pc = "write" /\ Fail
    /\ wmLog' = Append(wmLog, [bytes |-> FormatMarkdown(t.contents), before |-> file,
                                written |-> FALSE, read |-> TRUE, ok |-> FALSE])
    /\ saveTasks' = saveTasks \ {t}
    /\ UNCHANGED <<roomVars, storeVars, subVars, opVars>>
    /\ UNCHANGED <<appendCalls, pushed, ops, sent, roPolled, awPolled, apiLast, fresh, trimmed>>
    /\ UNCHANGED <<lastAuto, now, interval, archived, spawned, lastObserved, bcast>>
    /\ UNCHANGED <<save_flags, clock, docType, archived_at, runs, signVars, twinVars>>

\* time passes
Tick ==
    /\ clock < MaxTicks * TickMs
    /\ clock' = clock + TickMs
    /\ UNCHANGED <<roomVars, storeVars, subVars, opVars, histVars>>
    /\ UNCHANGED <<lastAuto, now, interval, archived, saveObs>>
    /\ UNCHANGED <<save_flags, docType, archived_at, runs, wmLog, signVars, twinVars>>

(***************************************************************************)
(* RestoreSnapshot::execute: what follows the return of persist_snapshot.  *)
(***************************************************************************)
\* no frame is being handled and no update is on its way to the log
PipelineIdle ==
    /\ \A s \in Subs : subs[s].frame = NoFrame
    /\ chan = <<>> /\ sendq = {}
    /\ pcP \in {"none", "recv"}
    /\ twin.chan = <<>> /\ twin.sendq = {}
    /\ twin.pcP \in {"none", "recv"}

RestoreReturn(result) == [RestoreIdle EXCEPT !.result = result]

\* persist_snapshot(..).await? in RestoreSnapshot::execute
RestoreAfterPersist(r, f) ==
    IF f.pc = "ok" THEN [r EXCEPT !.pc = "markdown"]
    ELSE IF f.pc = "err" THEN RestoreReturn("err")
    ELSE r

(***************************************************************************)
(* SnapshotService::persist_snapshot, one call frame per caller.  The      *)
(* frame of snapshot_all ends when the call returns (the result is only    *)
(* propagated); the other callers read the result from the frame.          *)
(***************************************************************************)
PsCall(d, opts) ==
    [PsIdle EXCEPT !.pc = "read", !.bin = EncodeStateAsUpdate(d), !.opts = opts]

\* the store calls that follow the persist, in the order of the code
PostStage(opts, after) ==
    IF after = "persist" /\ opts.clear_updates THEN "clear"
    ELSE IF after \in {"persist", "clear"} /\ opts.prune_snapshots # None THEN "prune_s"
    ELSE IF after \in {"persist", "clear", "prune_s"} /\ opts.prune_updates_before # None
         THEN "prune_u"
    ELSE "ok"

PsReturned(c) == ps[c].pc \in {"ok", "err"}

\* the frame f of caller c after a step, and the caller's continuation
PsStep(c, f) ==
    /\ ps' = [ps EXCEPT ![c] = IF c = "all" /\ f.pc \in {"ok", "err"} THEN PsIdle ELSE f]
    /\ restore' = IF c = "restore" THEN RestoreAfterPersist(restore, f) ELSE restore

\* latest_snapshot_entry / latest_snapshot_version
PsRead(c) ==
    /\ ps[c].pc = "read"
    /\ PsStep(c, [ps[c] EXCEPT
            !.pc = "persist",
            !.cur = IF snaps = <<>> THEN 0 ELSE LatestSnapshotVersion(snaps),
            !.hasPrev = ps[c].opts.skip_if_unchanged /\ snaps # <<>>,
            !.prev = IF ps[c].opts.skip_if_unchanged /\ snaps # <<>>
                     THEN snaps[LatestSnapshotEntry(snaps)].bytes
                     ELSE EmptyDoc])
    /\ UNCHANGED <<roomVars, storeVars, subVars, timeVars, histVars>>

PsReadFails(c) ==
    /\ ps[c].pc = "read" /\ Fail
    /\ PsStep(c, [ps[c] EXCEPT !.pc = "err"])
    /\ UNCHANGED <<roomVars, storeVars, subVars, timeVars>>
    /\ UNCHANGED <<appendCalls, pushed, ops, sent, roPolled, awPolled, apiLast, fresh, trimmed>>

SnapshotNeverUnchanged(f) == FALSE

\* skip_if_unchanged && prev == snapshot_bin
SnapshotUnchanged(f) == f.opts.skip_if_unchanged /\ f.hasPrev /\ f.prev = f.bin

NextVersionSkips(current_version) == current_version + 2

\* next_version = current_version + 1
NextVersion(current_version) == current_version + 1

OnPersistErrorIgnored(opts) == PostStage(opts, "persist")

\* persistence.persist_snapshot(..).await? : the error is returned
OnPersistError(opts) == "err"

PsPersist(c) ==
    /\ ps[c].pc = "persist"
    /\ \/ /\ SnapshotUnchanged(ps[c])
          /\ PsStep(c, [ps[c] EXCEPT !.pc = PostStage(ps[c].opts, "persist"),
                                     !.version = ps[c].cur, !.persisted = FALSE])
          /\ snaps' = snaps
       \/ /\ ~SnapshotUnchanged(ps[c])
          /\ ~PersistOutOfOrder(snaps, NextVersion(ps[c].cur))
          /\ snaps' = Append(snaps, [version |-> NextVersion(ps[c].cur), bytes |-> ps[c].bin])
          /\ PsStep(c, [ps[c] EXCEPT !.pc = PostStage(ps[c].opts, "persist"),
                                     !.version = NextVersion(ps[c].cur),
                                     !.persisted = TRUE, !.inserted = TRUE])
       \/ /\ ~SnapshotUnchanged(ps[c])
          /\ PersistOutOfOrder(snaps, NextVersion(ps[c].cur))
          /\ PsStep(c, [ps[c] EXCEPT !.pc = OnPersistError(ps[c].opts),
                                     !.persistFailed = TRUE])
          /\ snaps' = snaps
    /\ UNCHANGED <<roomVars, log, archives, file, subVars, timeVars, histVars>>

PsPersistFails(c) ==
    /\ ps[c].pc = "persist" /\ ~SnapshotUnchanged(ps[c]) /\ Fail
    /\ PsStep(c, [ps[c] EXCEPT !.pc = OnPersistError(ps[c].opts), !.persistFailed = TRUE])
    /\ UNCHANGED <<roomVars, storeVars, subVars, timeVars>>
    /\ UNCHANGED <<appendCalls, pushed, ops, sent, roPolled, awPolled, apiLast, fresh, trimmed>>

\* clear_updates, prune_snapshots, prune_updates_before: each `.await?`
PsPost(c) ==
    /\ ps[c].pc \in {"clear", "prune_s", "prune_u"}
    /\ log' = CASE ps[c].pc = "clear" -> <<>>
                [] ps[c].pc = "prune_u" ->
                       PruneUpdatesBefore(log, ps[c].opts.prune_updates_before)
                [] OTHER -> log
    /\ snaps' = IF ps[c].pc = "prune_s"
                THEN PruneSnapshots(snaps, ps[c].opts.prune_snapshots)
                ELSE snaps
    /\ trimmed' = (trimmed \/ log' # log)
    /\ PsStep(c, [ps[c] EXCEPT !.pc = PostStage(ps[c].opts, ps[c].pc),
                               !.touched = @ \cup {ps[c].pc}])
    /\ UNCHANGED <<roomVars, archives, file, subVars, timeVars>>
    /\ UNCHANGED <<appendCalls, pushed, fails, ops, sent, roPolled, awPolled, apiLast, fresh>>

PsPostFails(c) ==
    /\ ps[c].pc \in {"clear", "prune_s", "prune_u"} /\ Fail
    /\ PsStep(c, [ps[c] EXCEPT !.pc = "err", !.touched = @ \cup {ps[c].pc}])
    /\ UNCHANGED <<roomVars, storeVars, subVars, timeVars>>
    /\ UNCHANGED <<appendCalls, pushed, ops, sent, roPolled, awPolled, apiLast, fresh, trimmed>>

(***************************************************************************)
(* Auto-archive in the persistence task.                                   *)
(***************************************************************************)
ShouldArchiveAlways(last, t, iv) == TRUE

\* Some(last) if now.duration_since(*last) < auto_archive_interval => false
ShouldArchive(last, t, iv) == ~(last # None /\ t - last < iv)

PersistGate ==
    /\ pcP = "gate"
    /\ \E t \in now..MaxNow :
          /\ now' = t
          /\ IF ShouldArchive(lastAuto, t, interval)
             THEN /\ lastAuto' = t
                  /\ ps' = [ps EXCEPT !["task"] = PsCall(doc, DefaultOptions)]
                  /\ pcP' = "snap" /\ cur' = cur
             ELSE /\ lastAuto' = lastAuto /\ ps' = ps
                  /\ pcP' = "recv" /\ cur' = NoCur
    /\ UNCHANGED <<inner, doc, seq, chan, sendq, hyd>>
    /\ UNCHANGED <<storeVars, subVars, restore, interval, extVars, histVars>>

\* Err(e) => "persist_document_snapshot_failed"
PersistSnapFailed ==
    /\ pcP = "snap" /\ ps["task"].pc = "err"
    /\ pcP' = AfterFailure("recv") /\ cur' = NoCur
    /\ ps' = [ps EXCEPT !["task"] = PsIdle]
    /\ UNCHANGED <<inner, doc, seq, chan, sendq, hyd>>
    /\ UNCHANGED <<storeVars, subVars, restore, timeVars, histVars>>

\* Ok(result) => archive_snapshot(.., kind: Automatic)
PersistArchive ==
    /\ pcP = "snap" /\ ps["task"].pc = "ok"
    /\ archives' = ArchiveSnapshot(archives, ps["task"].bin, ps["task"].version,
                                   <<"Snapshot ", "ts">>, "Automatic")
    /\ pcP' = "recv" /\ cur' = NoCur
    /\ ps' = [ps EXCEPT !["task"] = PsIdle]
    /\ UNCHANGED <<inner, doc, seq, chan, sendq, hyd>>
    /\ UNCHANGED <<log, snaps, file, subVars, restore, timeVars, histVars>>

\* archive_snapshot fails: "persist_document_snapshot_archive_failed"
PersistArchiveFails ==
    /\ pcP = "snap" /\ ps["task"].pc = "ok" /\ Fail
    /\ pcP' = AfterFailure("recv") /\ cur' = NoCur
    /\ ps' = [ps EXCEPT !["task"] = PsIdle]
    /\ UNCHANGED <<inner, doc, seq, chan, sendq, hyd>>
    /\ UNCHANGED <<storeVars, subVars, restore, timeVars>>
    /\ UNCHANGED <<appendCalls, pushed, ops, sent, roPolled, awPolled, apiLast, fresh, trimmed>>

(***************************************************************************)
(* Hub::snapshot_all.                                                      *)
(***************************************************************************)
SnapshotAllParams == {[keep_versions |-> 1, window |-> 0], [keep_versions |-> 2, window |-> 1]}

CutoffUnclamped(current_seq, window) == current_seq - window

\* cutoff = (current_seq - updates_keep_window).max(0)
Cutoff(current_seq, window) ==
    IF current_seq - window > 0 THEN current_seq - window ELSE 0

SnapshotAllOptions(keep_versions, cutoff) ==
    [clear_updates |-> FALSE, skip_if_unchanged |-> FALSE,
     prune_snapshots |-> keep_versions, prune_updates_before |-> cutoff]

SnapshotAll(keep_versions, window) ==
    /\ ps["all"].pc = "idle" /\ ops["op"] < MaxOps
    /\ inner /\ SeqLockFree
    /\ ps' = [ps EXCEPT !["all"] =
                PsCall(doc, SnapshotAllOptions(keep_versions, Cutoff(seq, window)))]
    /\ ops' = [ops EXCEPT !["op"] = @ + 1]
    /\ UNCHANGED <<roomVars, storeVars, subVars, restore, timeVars>>
    /\ UNCHANGED <<appendCalls, pushed, fails, sent, roPolled, awPolled, apiLast, fresh, trimmed>>

(***************************************************************************)
(* RestoreSnapshot::execute with Hub::apply_snapshot.                      *)
(***************************************************************************)
RestoreOptions == [DefaultOptions EXCEPT !.clear_updates = TRUE]

\* load_archive_doc: bytes applied to a fresh replica
LoadArchiveDoc(a) == ApplyUpdate(EmptyDoc, a.bytes)

\* format!("Restore {}, {}", now, snapshot_record.label)
RestoreLabel(label) == <<"Restore ", "ts">> \o label

\* the id of an archive that belongs to another document
ForeignId == 1000
ForeignArchive ==
    [document_id |-> "other", bytes |-> ClientUpdate(ForeignId), label |-> <<"Foreign">>]

\* get_by_id: the archive's document, bytes and label, or None for an unknown id
GetById(arch, aid) ==
    IF aid \in 1..Len(arch)
    THEN [document_id |-> "doc", bytes |-> arch[aid].bytes, label |-> arch[aid].label]
    ELSE IF aid = ForeignId THEN ForeignArchive
    ELSE [document_id |-> "none", bytes |-> EncodeStateAsUpdate(EmptyDoc), label |-> <<>>]

DocumentMismatchIgnored(record_document, document_id) == FALSE

\* snapshot_record.document_id != document_id
DocumentMismatch(record_document, document_id) == record_document # document_id

\* load_archive_doc returns the archive, or None for an unknown id; an archive
\* of another document is refused
RestoreLoad(aid) ==
    /\ restore.pc = "idle" /\ ops["op"] < MaxOps
    /\ ops' = [ops EXCEPT !["op"] = @ + 1]
    /\ restore' = IF GetById(archives, aid).document_id = "none"
                  THEN [RestoreReturn("notfound") EXCEPT !.aid = aid]
                  ELSE IF DocumentMismatch(GetById(archives, aid).document_id, "doc")
                  THEN [RestoreReturn("mismatch") EXCEPT !.aid = aid]
                  ELSE [pc |-> "room", src |-> LoadArchiveDoc(GetById(archives, aid)),
                        label |-> GetById(archives, aid).label, result |-> "none",
                        quiet |-> PipelineIdle, sent0 |-> Len(sent), aid |-> aid,
                        upd |-> EmptyDoc]
    /\ UNCHANGED <<roomVars, storeVars, subVars, ps, timeVars>>
    /\ UNCHANGED <<appendCalls, pushed, fails, sent, roPolled, awPolled, apiLast, fresh, trimmed>>

RestoreLoadFails ==
    /\ restore.pc = "idle" /\ ops["op"] < MaxOps /\ Fail
    /\ ops' = [ops EXCEPT !["op"] = @ + 1]
    /\ restore' = RestoreReturn("err")
    /\ UNCHANGED <<roomVars, storeVars, subVars, ps, timeVars>>
    /\ UNCHANGED <<appendCalls, pushed, sent, roPolled, awPolled, apiLast, fresh, trimmed>>

\* apply_snapshot: self.get_or_create(doc_id).await?
RestoreGetRoom ==
    /\ restore.pc = "room"
    /\ GetOrCreate
    /\ restore' = [restore EXCEPT !.pc = "apply"]
    /\ UNCHANGED <<storeVars, subVars, ps, timeVars, histVars>>

RestoreGetRoomFails ==
    /\ restore.pc = "room" /\ ~inner /\ Fail
    /\ restore' = RestoreReturn("err")
    /\ UNCHANGED <<roomVars, storeVars, subVars, ps, timeVars>>
    /\ UNCHANGED <<appendCalls, pushed, ops, sent, roPolled, awPolled, apiLast, fresh, trimmed>>

ReplacementId == ArchiveEvery + ops["op"]

ReplacementUpdatesSplit(d, d2) ==
    <<[ins |-> {}, del |-> d2.del \ d.del], [ins |-> d2.ins \ d.ins, del |-> {}]>>

\* remove_range and insert run in one write transaction, which emits one update
ReplacementUpdates(d, d2) == <<TxnUpdate(d, d2)>>

\* apply_snapshot's write transaction
RestoreApply ==
    /\ restore.pc = "apply"
    /\ doc' = ReplaceContent(doc, GetString(restore.src), ReplacementId)
    /\ sendq' = sendq \cup Observed(doc, doc')
    /\ restore' = [restore EXCEPT !.pc = "bcast", !.upd = TxnUpdate(doc, doc')]
    /\ ObserveSave(doc, doc')
    /\ bcast' = bcast \o [i \in 1..Len(ReplacementUpdates(doc, doc')) |->
                              ObserverFrame(ReplacementUpdates(doc, doc')[i])]
    /\ UNCHANGED <<inner, seq, chan, pcP, cur, hyd>>
    /\ UNCHANGED <<storeVars, subVars, ps, lastAuto, now, interval, restExt, histVars>>

\* room.broadcast.broadcast(frame) after the commit, then apply_snapshot
\* returns and persist_snapshot(&snapshot_doc, clear_updates) is called
RestoreBroadcast ==
    /\ restore.pc = "bcast"
    /\ bcast' = Append(bcast, ExplicitFrame(restore.upd))
    /\ ps' = [ps EXCEPT !["restore"] = PsCall(restore.src, RestoreOptions)]
    /\ restore' = [restore EXCEPT !.pc = "snap"]
    /\ UNCHANGED <<roomVars, storeVars, subVars, lastAuto, now, interval>>
    /\ UNCHANGED <<saveTasks, spawned, lastObserved, restExt, histVars>>

RestoreMarkdown ==
    /\ restore.pc = "markdown"
    /\ file' = IF Materializes(docType) THEN WriteMarkdown(file, restore.src) ELSE file
    /\ restore' = [restore EXCEPT !.pc = "archive"]
    /\ UNCHANGED <<roomVars, log, snaps, archives, subVars, ps, timeVars, histVars>>

RestoreMarkdownFails ==
    /\ restore.pc = "markdown" /\ Fail
    /\ restore' = RestoreReturn("err")
    /\ ps' = [ps EXCEPT !["restore"] = PsIdle]
    /\ UNCHANGED <<roomVars, storeVars, subVars, timeVars>>
    /\ UNCHANGED <<appendCalls, pushed, ops, sent, roPolled, awPolled, apiLast, fresh, trimmed>>

RestoreArchive ==
    /\ restore.pc = "archive"
    /\ archives' = ArchiveSnapshot(archives, ps["restore"].bin, ps["restore"].version,
                                   RestoreLabel(restore.label), "Restore")
    /\ restore' = RestoreReturn("ok")
    /\ ps' = [ps EXCEPT !["restore"] = PsIdle]
    /\ UNCHANGED <<roomVars, log, snaps, file, subVars, timeVars, histVars>>

RestoreArchiveFails ==
    /\ restore.pc = "archive" /\ Fail
    /\ restore' = RestoreReturn("err")
    /\ ps' = [ps EXCEPT !["restore"] = PsIdle]
    /\ UNCHANGED <<roomVars, storeVars, subVars, timeVars>>
    /\ UNCHANGED <<appendCalls, pushed, ops, sent, roPolled, awPolled, apiLast, fresh, trimmed>>

\* Hub::get_content
GetContent ==
    IF inner THEN GetString(doc) ELSE GetString(HydrateDoc(snaps, log))

(***************************************************************************)
(* Direct calls of persist_snapshot on the room's replica.                 *)
(***************************************************************************)
ApiOptions ==
    [clear_updates : BOOLEAN, skip_if_unchanged : BOOLEAN,
     prune_snapshots : {None, 1}, prune_updates_before : {None, 2}]

ApiCall(opts) ==
    /\ inner /\ ps["api"].pc = "idle" /\ ops["api"] < MaxApiCalls
    /\ ps' = [ps EXCEPT !["api"] = PsCall(doc, opts)]
    /\ ops' = [ops EXCEPT !["api"] = @ + 1]
    /\ UNCHANGED <<roomVars, storeVars, subVars, restore, timeVars>>
    /\ UNCHANGED <<appendCalls, pushed, fails, sent, roPolled, awPolled, apiLast, fresh, trimmed>>

ApiReturn ==
    /\ PsReturned("api")
    /\ apiLast' = [ok |-> ps["api"].pc = "ok", skip |-> ps["api"].opts.skip_if_unchanged,
                   bin |-> ps["api"].bin, version |-> ps["api"].version]
    /\ ps' = [ps EXCEPT !["api"] = PsIdle]
    /\ UNCHANGED <<roomVars, storeVars, subVars, restore, timeVars>>
    /\ UNCHANGED <<appendCalls, pushed, fails, ops, sent, roPolled, awPolled, fresh, trimmed>>

(***************************************************************************)
(* AssetSigner (sign_url, verify_url) and the plugin-asset endpoint.       *)
(* Strings are sequences of characters.                                    *)
(***************************************************************************)
RECURSIVE TrimStart(_)
TrimStart(str) ==
    IF str # <<>> /\ Head(str) = " " THEN TrimStart(Tail(str)) ELSE str

RECURSIVE TrimEnd(_)
TrimEnd(str) ==
    IF str # <<>> /\ str[Len(str)] = " "
    THEN TrimEnd(SubSeq(str, 1, Len(str) - 1)) ELSE str

\* str::trim
Trim(str) == TrimEnd(TrimStart(str))

\* while let Some(stripped) = cleaned.strip_prefix("./")
RECURSIVE StripDotSlash(_)
StripDotSlash(str) ==
    IF Len(str) >= 2 /\ str[1] = "." /\ str[2] = "/"
    THEN StripDotSlash(SubSeq(str, 3, Len(str))) ELSE str

\* trim_start_matches('/')
RECURSIVE TrimStartSlash(_)
TrimStartSlash(str) ==
    IF str # <<>> /\ Head(str) = "/" THEN TrimStartSlash(Tail(str)) ELSE str

NormalizeAssetPath(path) == Trim(TrimStartSlash(StripDotSlash(Trim(path))))

Contains(str, c) == \E i \in 1..Len(str) : str[i] = c
ContainsDotDot(str) == \E i \in 1..(Len(str) - 1) : str[i] = "." /\ str[i + 1] = "."

\* normalize_manifest_path: None is <<>>
NormalizeManifestPath(raw) ==
    LET cleaned == TrimStartSlash(StripDotSlash(Trim(raw)))
    IN IF cleaned = <<>> \/ ContainsDotDot(cleaned) \/ Contains(cleaned, "\\")
       THEN <<>> ELSE cleaned

\* i64 formatted in decimal (the timestamps of the model have one digit)
Decimal(n) == <<<<"0", "1", "2", "3", "4", "5", "6", "7", "8", "9">>[n + 1]>>

GlobalScope == [tag |-> "global", owner |-> <<>>, share |-> <<>>, some |-> FALSE]
UserScope(owner, some, share) ==
    [tag |-> "user", owner |-> owner, share |-> share, some |-> some]

\* the components of the payload: scope tag, owner, plugin id, version, path,
\* expiry, share token (share_token.unwrap_or(""))
PayloadParts(scope, plugin_id, version, path, expires_at) ==
    <<<<scope.tag>>,
      IF scope.tag = "user" THEN scope.owner ELSE <<>>,
      plugin_id, version, path, Decimal(expires_at),
      IF scope.tag = "user" /\ scope.some THEN scope.share ELSE <<>>>>

BuildPayloadNoShare(scope, plugin_id, version, path, expires_at) ==
    LET parts == PayloadParts(scope, plugin_id, version, path, expires_at)
    IN parts[1] \o <<"|">> \o parts[2] \o <<"|">> \o parts[3] \o <<"|">> \o parts[4]
       \o <<"|">> \o parts[5] \o <<"|">> \o parts[6] \o <<"|">>

\* format!("{scope}|{owner}|{plugin}|{version}|{path}|{exp}|{share}")
BuildPayload(scope, plugin_id, version, path, expires_at) ==
    LET parts == PayloadParts(scope, plugin_id, version, path, expires_at)
    IN parts[1] \o <<"|">> \o parts[2] \o <<"|">> \o parts[3] \o <<"|">> \o parts[4]
       \o <<"|">> \o parts[5] \o <<"|">> \o parts[6] \o <<"|">> \o parts[7]

\* HMAC-SHA256 of the payload under the key, base64url without padding; a
\* string that is not base64url has b64 = FALSE
SignPayload(key, payload) == [b64 |-> TRUE, key |-> key, payload |-> payload]
NotBase64 == [b64 |-> FALSE, key |-> "", payload |-> <<>>]

\* URL_SAFE_NO_PAD.decode(signature) else return false; mac.verify_slice(&decoded)
VerifyPayload(key, payload, signature) ==
    /\ signature.b64
    /\ signature.key = key /\ signature.payload = payload

SignerKey == "secret"

VerifyUrlNoExpiry(scope, plugin_id, version, relative_path, expires_at, signature, t) ==
    VerifyPayload(SignerKey,
        BuildPayload(scope, plugin_id, version,
                     NormalizeAssetPath(relative_path), expires_at),
        signature)

\* AssetSigner::verify_url at time t
VerifyUrl(scope, plugin_id, version, relative_path, expires_at, signature, t) ==
    IF expires_at <= t THEN FALSE
    ELSE VerifyPayload(SignerKey,
            BuildPayload(scope, plugin_id, version,
                         NormalizeAssetPath(relative_path), expires_at),
            signature)

\* ensure_valid_plugin_id / ensure_valid_plugin_version: characters allowed
ValidPluginId(id) == id # <<>> /\ \A i \in 1..Len(id) : id[i] \in {"p", "q", "1", "2"}
ValidPluginVersion(v) == v # <<>> /\ \A i \in 1..Len(v) : v[i] \in {"p", "q", "1", "2", "."}

\* is_safe_asset_segment for every segment of normalized_path.split('/')
RECURSIVE SafeSegments(_, _)
SafeSegments(path, seg) ==
    IF path = <<>> THEN seg # <<>> /\ seg # <<".">>
    ELSE IF Head(path) = "/"
         THEN seg # <<>> /\ seg # <<".">> /\ SafeSegments(Tail(path), <<>>)
         ELSE SafeSegments(Tail(path), Append(seg, Head(path)))

\* sign_url: the parameters of the URL that is minted at time utc
SignUrl(scope, plugin_id, version, relative_path, ttl_secs) ==
    /\ asset.pc = "none"
    /\ asset' = [pc |-> "minted", scope |-> scope, plugin |-> plugin_id,
                 version |-> version, path |-> relative_path,
                 exp |-> utc + ttl_secs, at |-> utc,
                 sig |-> SignPayload(SignerKey,
                            BuildPayload(scope, plugin_id, version,
                                         NormalizeAssetPath(relative_path),
                                         utc + ttl_secs))]
    /\ UNCHANGED <<roomVars, storeVars, subVars, opVars, histVars>>
    /\ UNCHANGED <<lastAuto, now, interval, archived, saveObs, saveVars, twinVars, utc, cwdVars>>

\* urlencoding::encode: every character that is not unreserved is escaped
\* (the escape of a character c is written "%" c)
Unreserved == {"a", "b", "p", "q", "t", "1", "2", "."}
RECURSIVE UrlEncode(_)
UrlEncode(str) ==
    IF str = <<>> THEN <<>>
    ELSE (IF Head(str) \in Unreserved THEN <<Head(str)>> ELSE <<"%", Head(str)>>)
         \o UrlEncode(Tail(str))

\* the percent-decoding of a query parameter
RECURSIVE UrlDecode(_)
UrlDecode(str) ==
    IF str = <<>> THEN <<>>
    ELSE IF Head(str) = "%" /\ Len(str) >= 2
         THEN <<str[2]>> \o UrlDecode(SubSeq(str, 3, Len(str)))
         ELSE <<Head(str)>> \o UrlDecode(Tail(str))

AssetRequest(scope, plugin_id, version, path, exp, sig) ==
    [scope |-> scope, plugin |-> plugin_id, version |-> version, path |-> path,
     exp |-> exp, sig |-> sig]

\* the query parameters of the URL that sign_url minted, as the endpoint
\* parses them: the path of the URL is the normalized path
UrlQuery ==
    AssetRequest(asset.scope, UrlDecode(UrlEncode(asset.plugin)),
                 UrlDecode(UrlEncode(asset.version)),
                 UrlDecode(UrlEncode(NormalizeAssetPath(asset.path))),
                 asset.exp, asset.sig)

\* a direct call of verify_url
VerifyCall(r) ==
    /\ asset.pc = "minted"
    /\ asset' = [asset EXCEPT !.pc = "verified"] @@
                [req |-> r, at2 |-> utc,
                 result |-> VerifyUrl(r.scope, r.plugin, r.version, r.path, r.exp, r.sig, utc)]
    /\ UNCHANGED <<roomVars, storeVars, subVars, opVars, histVars>>
    /\ UNCHANGED <<lastAuto, now, interval, archived, saveObs, saveVars, twinVars, utc, cwdVars>>

\* get_plugin_asset: the status of the response, and whether verify_url was
\* called and what it returned
AssetStatus(r, t, exists) ==
    IF ~ValidPluginId(r.plugin) \/ ~ValidPluginVersion(r.version)
       \/ NormalizeManifestPath(r.path) = <<>>
    THEN [status |-> "bad_request", verified |-> "no"]
    ELSE IF ~VerifyUrl(r.scope, r.plugin, r.version, NormalizeManifestPath(r.path),
                       r.exp, r.sig, t)
    THEN [status |-> "unauthorized", verified |-> "false"]
    ELSE IF ~SafeSegments(NormalizeManifestPath(r.path), <<>>)
    THEN [status |-> "bad_request", verified |-> "true"]
    ELSE IF ~exists THEN [status |-> "not_found", verified |-> "true"]
    ELSE [status |-> "ok", verified |-> "true"]

GetPluginAsset(r, exists) ==
    /\ asset.pc = "minted"
    /\ asset' = [asset EXCEPT !.pc = "answered"] @@
                [req |-> r, at2 |-> utc, response |-> AssetStatus(r, utc, exists),
                 direct |-> VerifyUrl(r.scope, r.plugin, r.version,
                                      NormalizeManifestPath(r.path), r.exp, r.sig, utc)]
    /\ UNCHANGED <<roomVars, storeVars, subVars, opVars, histVars>>
    /\ UNCHANGED <<lastAuto, now, interval, archived, saveObs, saveVars, twinVars, utc, cwdVars>>

\* Utc::now() advances
UtcTick ==
    /\ utc < MaxUtc
    /\ utc' = utc + 1
    /\ UNCHANGED <<roomVars, storeVars, subVars, opVars, histVars>>
    /\ UNCHANGED <<lastAuto, now, interval, archived, saveObs, saveVars, twinVars, asset, cwdVars>>

(***************************************************************************)
(* render_with_pandoc: the blocking closure of every conversion from the   *)
(* lock of PANDOC_WORKDIR_LOCK to the drop of its guards.                  *)
(***************************************************************************)
Convs == {"c1", "c2"}

\* tempdir(): the resource directory of a conversion
ResourceDir(c) == IF c = "c1" THEN "tmp1" ELSE "tmp2"

ConvStep(c, pc) == [conv EXCEPT ![c].pc = pc]

\* let _lock = PANDOC_WORKDIR_LOCK.lock().unwrap()
PandocLock(c) ==
    /\ conv[c].pc = "idle" /\ conv[c].n < MaxConversions
    /\ workdir_lock = "free"
    /\ workdir_lock' = c
    /\ conv' = [conv EXCEPT ![c].pc = "locked", ![c].prior = cwd, ![c].original = "none"]
    /\ UNCHANGED <<cwd, restoreFailed>>
    /\ UNCHANGED <<roomVars, storeVars, subVars, opVars, histVars>>
    /\ UNCHANGED <<lastAuto, now, interval, archived, saveObs, saveVars, twinVars, utc, asset>>

\* WorkingDirGuard::change_to: current_dir() is recorded, then
\* set_current_dir(target)
ChangeTo(c) ==
    /\ conv[c].pc = "locked" /\ workdir_lock = c
    /\ conv' = [conv EXCEPT ![c].pc = "run", ![c].original = cwd]
    /\ cwd' = ResourceDir(c)
    /\ UNCHANGED <<workdir_lock, restoreFailed>>
    /\ UNCHANGED <<roomVars, storeVars, subVars, opVars, histVars>>
    /\ UNCHANGED <<lastAuto, now, interval, archived, saveObs, saveVars, twinVars, utc, asset>>

\* change_to returns an error (current_dir or set_current_dir failed): no
\* guard exists and the closure returns
ChangeToFails(c) ==
    /\ conv[c].pc = "locked" /\ workdir_lock = c
    /\ conv' = ConvStep(c, "unlock")
    /\ UNCHANGED <<cwd, workdir_lock, restoreFailed>>
    /\ UNCHANGED <<roomVars, storeVars, subVars, opVars, histVars>>
    /\ UNCHANGED <<lastAuto, now, interval, archived, saveObs, saveVars, twinVars, utc, asset>>

\* pandoc_cmd.execute() and the read of its output: Ok or Err, in both
\* cases the closure returns and its locals are dropped
PandocExecute(c) ==
    /\ conv[c].pc = "run"
    /\ conv' = ConvStep(c, "drop")
    /\ UNCHANGED <<cwd, workdir_lock, restoreFailed>>
    /\ UNCHANGED <<roomVars, storeVars, subVars, opVars, histVars>>
    /\ UNCHANGED <<lastAuto, now, interval, archived, saveObs, saveVars, twinVars, utc, asset>>

DropKeepsDir(original, dir) == dir

\* Drop for WorkingDirGuard: set_current_dir(&original)
DropRestores(original, dir) == original

\* _cwd_guard is declared after _lock and is dropped before it
WorkingDirGuardDrop(c) ==
    /\ conv[c].pc = "drop"
    /\ cwd' = DropRestores(conv[c].original, cwd)
    /\ conv' = ConvStep(c, "unlock")
    /\ UNCHANGED <<workdir_lock, restoreFailed>>
    /\ UNCHANGED <<roomVars, storeVars, subVars, opVars, histVars>>
    /\ UNCHANGED <<lastAuto, now, interval, archived, saveObs, saveVars, twinVars, utc, asset>>

\* the set_current_dir of the drop fails: the error is logged
WorkingDirGuardDropFails(c) ==
    /\ conv[c].pc = "drop"
    /\ restoreFailed' = TRUE
    /\ conv' = ConvStep(c, "unlock")
    /\ UNCHANGED <<cwd, workdir_lock>>
    /\ UNCHANGED <<roomVars, storeVars, subVars, opVars, histVars>>
    /\ UNCHANGED <<lastAuto, now, interval, archived, saveObs, saveVars, twinVars, utc, asset>>

\* _lock is dropped
PandocUnlock(c) ==
    /\ conv[c].pc = "unlock" /\ workdir_lock = c
    /\ workdir_lock' = "free"
    /\ conv' = [conv EXCEPT ![c].pc = "idle", ![c].n = @ + 1]
    /\ UNCHANGED <<cwd, restoreFailed>>
    /\ UNCHANGED <<roomVars, storeVars, subVars, opVars, histVars>>
    /\ UNCHANGED <<lastAuto, now, interval, archived, saveObs, saveVars, twinVars, utc, asset>>

(***************************************************************************)
(* Specifications.                                                         *)
(***************************************************************************)
UpdateFrames == {UpdateFrame(k) : k \in 1..MaxUpdates}
MalformedFrames == {MalformedFrame(k) : k \in 1..MaxUpdates}
Frames == {AwarenessFrame} \cup UpdateFrames \cup MalformedFrames

PipelineNext ==
    \/ \E u \in sendq : SendTask(u)
    \/ PersistRecv
    \/ PersistAppend
    \/ HydrateRead
    \/ HydrateApply
    \/ HydrateSeq

\* one editing subscriber, snapshot_all and restore, on an empty document or
\* on one with a snapshot, an archive and one log entry
InitMain ==
    /\ Init
    /\ interval = 1 /\ docType = "document"
    /\ ~fresh => log = OldLog(1)

Next ==
    \/ Subscribe("A", TRUE)
    \/ \E k \in 1..MaxEdits : GuardPoll("A", UpdateFrame(k))
    \/ HandleFrame("A")
    \/ PipelineNext
    \/ PersistAppendFails
    \/ \E c \in {"all", "restore"} : PsRead(c) \/ PsPersist(c) \/ PsPost(c)
    \/ \E p \in SnapshotAllParams : SnapshotAll(p.keep_versions, p.window)
    \/ \E aid \in 0..Len(archives) : RestoreLoad(aid)
    \/ RestoreGetRoom
    \/ RestoreApply
    \/ RestoreBroadcast
    \/ RestoreMarkdown
    \/ RestoreArchive

Spec == InitMain /\ [][Next]_vars

\* two subscribers, the edit guard and the edit flag on a document that started empty
InitEdit == Init /\ fresh /\ interval = 1 /\ docType = "document"

NextEdit ==
    \/ \E s \in Subs, can_edit \in BOOLEAN : Subscribe(s, can_edit)
    \/ \E s \in Subs, f \in Frames : GuardPoll(s, f)
    \/ \E s \in Subs : HandleFrame(s)
    \/ \E b \in BOOLEAN : SetDocumentEditable(b)
    \/ PipelineNext
    \/ PersistAppendFails

SpecEdit == InitEdit /\ [][NextEdit]_vars

\* direct persist_snapshot calls on a document that started empty
InitSnap == Init /\ fresh /\ interval = 1 /\ docType = "document"

NextSnap ==
    \/ Subscribe("A", TRUE)
    \/ \E f \in UpdateFrames : GuardPoll("A", f)
    \/ HandleFrame("A")
    \/ PipelineNext
    \/ \E opts \in ApiOptions : ApiCall(opts)
    \/ ApiReturn
    \/ PsRead("api")
    \/ PsPersist("api")
    \/ PsPost("api")
    \/ PsReadFails("api")
    \/ PsPersistFails("api")
    \/ PsPostFails("api")

SpecSnap == InitSnap /\ [][NextSnap]_vars

\* the auto-archive of the persistence task, on a document whose log reaches
\* the archive threshold with the next update
InitArchive ==
    /\ Init
    /\ ~fresh /\ log = OldLog(ArchiveEvery - 1)
    /\ docType = "document"

NextArchive ==
    \/ Subscribe("A", TRUE)
    \/ GetOrCreateFails
    \/ \E k \in 1..MaxEdits : GuardPoll("A", UpdateFrame(k))
    \/ HandleFrame("A")
    \/ PipelineNext
    \/ PersistAppendFails
    \/ HydrateReadFails
    \/ PersistGate
    \/ PersistSnapFailed
    \/ PersistArchive
    \/ PersistArchiveFails
    \/ PsRead("task")
    \/ PsPersist("task")
    \/ PsReadFails("task")
    \/ PsPersistFails("task")

SpecArchive == InitArchive /\ [][NextArchive]_vars

\* the auto-archive of the persistence task running while snapshot_all runs
NextConcurrent ==
    \/ NextArchive
    \/ \E p \in SnapshotAllParams : SnapshotAll(p.keep_versions, p.window)
    \/ PsRead("all")
    \/ PsPersist("all")
    \/ PsPost("all")

SpecConcurrent == InitArchive /\ [][NextConcurrent]_vars

\* the same, started either as above or in a hub whose room has persisted
\* 2 * 100 - 1 updates and archived automatically at seq 100, at instant 0
ArchivedOnce ==
    /\ inner = TRUE /\ doc = OldDoc /\ seq = 2 * ArchiveEvery - 1 /\ chan = <<>> /\ sendq = {}
    /\ pcP = "recv" /\ cur = NoCur /\ hyd = [HydIdle EXCEPT !.pc = "done"]
    /\ fresh = FALSE
    /\ log = OldLog(2 * ArchiveEvery - 1)
    /\ snaps = Append(OldSnaps, [version |-> 3, bytes |-> EncodeStateAsUpdate(OldDoc)])
    /\ archives = ArchiveSnapshot(<<OldArchive>>, EncodeStateAsUpdate(OldDoc), 3,
                                  <<"Snapshot ", "ts">>, "Automatic")
    /\ file = <<>>
    /\ editable = TRUE
    /\ subs = [s \in Subs |-> [on |-> FALSE, ro |-> FALSE, frame |-> NoFrame]]
    /\ ps = [c \in Callers |-> PsIdle]
    /\ restore = RestoreIdle
    /\ lastAuto = 0 /\ now = 0 /\ interval = 1
    /\ appendCalls = <<>> /\ pushed = <<>> /\ fails = 0 /\ ops = [k \in {"op", "api"} |-> 0] /\ sent = <<>>
    /\ roPolled = {} /\ awPolled = 0
    /\ apiLast = [ok |-> FALSE, skip |-> FALSE, bin |-> EmptyDoc, version |-> 0]
    /\ trimmed = TRUE
    /\ archived = NoArchived
    /\ save_flags = FALSE /\ saveTasks = {} /\ spawned = 0 /\ clock = 0
    /\ docType = "document" /\ archived_at = FALSE
    /\ lastObserved = 0 /\ bcast = <<>> /\ runs = <<>> /\ wmLog = <<>>
    /\ utc = 0 /\ asset = [pc |-> "none"]
    /\ cwd = "home" /\ workdir_lock = "free" /\ restoreFailed = FALSE
    /\ conv = [c \in {"c1", "c2"} |->
                 [pc |-> "idle", original |-> "none", prior |-> "none", n |-> 0]]
    /\ creating = {} /\ twin = NoTwin

InitGate == InitArchive \/ ArchivedOnce

SpecGate == InitGate /\ [][NextArchive]_vars

\* the persistence task over stores that can fail, with the task scheduled
\* whenever it can take a step
NextTask ==
    \/ Subscribe("A", TRUE)
    \/ \E f \in UpdateFrames : GuardPoll("A", f)
    \/ HandleFrame("A")
    \/ PipelineNext
    \/ PersistAppendFails
    \/ PersistGate
    \/ PersistSnapFailed
    \/ PersistArchive
    \/ PersistArchiveFails
    \/ PsRead("task")
    \/ PsPersist("task")
    \/ PsReadFails("task")
    \/ PsPersistFails("task")

TaskFairness ==
    /\ WF_vars(PersistRecv)
    /\ WF_vars(PersistAppend \/ PersistAppendFails)
    /\ WF_vars(PersistGate)
    /\ WF_vars(PsRead("task") \/ PsReadFails("task"))
    /\ WF_vars(PsPersist("task") \/ PsPersistFails("task"))
    /\ WF_vars(PersistSnapFailed \/ PersistArchive \/ PersistArchiveFails)

SpecTask == InitArchive /\ [][NextTask]_vars /\ TaskFairness

\* the tasks that take the seq mutex (persistence task, hydration task,
\* snapshot_all), every task being scheduled whenever it can take a step
\* and every store call returning
NextLocks ==
    \/ Subscribe("A", TRUE)
    \/ GuardPoll("A", UpdateFrame(1))
    \/ HandleFrame("A")
    \/ PipelineNext
    \/ PersistGate
    \/ PersistSnapFailed
    \/ PersistArchive
    \/ PsRead("task")
    \/ PsPersist("task")
    \/ \E p \in SnapshotAllParams : SnapshotAll(p.keep_versions, p.window)
    \/ PsRead("all")
    \/ PsPersist("all")
    \/ PsPost("all")

LockFairness ==
    /\ WF_vars(PersistRecv)
    /\ WF_vars(PersistAppend)
    /\ WF_vars(PersistGate)
    /\ WF_vars(PsRead("task"))
    /\ WF_vars(PsPersist("task"))
    /\ WF_vars(PersistSnapFailed \/ PersistArchive)
    /\ WF_vars(HydrateRead)
    /\ WF_vars(HydrateApply)
    /\ WF_vars(HydrateSeq)
    /\ WF_vars(PsRead("all"))
    /\ WF_vars(PsPersist("all"))
    /\ WF_vars(PsPost("all"))

SpecLocks == InitArchive /\ [][NextLocks]_vars /\ LockFairness

(***************************************************************************)
(* ArchiveDocument::execute and UnarchiveDocument::execute on a subtree    *)
(* that consists of this document.                                         *)
(***************************************************************************)
\* Hub::force_save_to_fs: write_markdown of the room's replica, or of a
\* hydrated one when the document has no room
ForceSaveToFs ==
    IF Materializes(docType)
    THEN WriteMarkdown(file, IF inner THEN doc ELSE HydrateDoc(snaps, log))
    ELSE file

\* force_persist of every node that is no folder, archive_subtree, then
\* set_document_editable(node, false) for every node
ArchiveDocument ==
    /\ docType # "missing" /\ ~archived_at
    /\ file' = IF docType # "folder" THEN ForceSaveToFs ELSE file
    /\ archived_at' = TRUE
    /\ editable' = FALSE
    /\ UNCHANGED <<roomVars, log, snaps, archives, subs, opVars, histVars>>
    /\ UNCHANGED <<lastAuto, now, interval, saveObs, archived, signVars, twinVars>>
    /\ UNCHANGED <<save_flags, clock, docType, runs, wmLog>>

\* unarchive_subtree, then force_persist(doc_id) with its result ignored
UnarchiveDocument ==
    /\ docType # "missing" /\ archived_at
    /\ archived_at' = FALSE
    /\ file' = ForceSaveToFs
    /\ UNCHANGED <<roomVars, log, snaps, archives, subVars, opVars, histVars>>
    /\ UNCHANGED <<lastAuto, now, interval, saveObs, archived, signVars, twinVars>>
    /\ UNCHANGED <<save_flags, clock, docType, runs, wmLog>>

\* one subscriber that may edit, on a document that is archived and
\* unarchived
NextLifecycle ==
    \/ Subscribe("A", TRUE)
    \/ \E f \in UpdateFrames : GuardPoll("A", f)
    \/ HandleFrame("A")
    \/ PipelineNext
    \/ ArchiveDocument
    \/ UnarchiveDocument

SpecLifecycle == InitEdit /\ [][NextLifecycle]_vars

\* conversions of two downloads that run on the blocking pool
NextPandoc ==
    \/ \E c \in Convs : PandocLock(c)
    \/ \E c \in Convs : ChangeTo(c)
    \/ \E c \in Convs : ChangeToFails(c)
    \/ \E c \in Convs : PandocExecute(c)
    \/ \E c \in Convs : WorkingDirGuardDrop(c)
    \/ \E c \in Convs : WorkingDirGuardDropFails(c)
    \/ \E c \in Convs : PandocUnlock(c)

SpecPandoc == InitEdit /\ [][NextPandoc]_vars

\* restore and snapshot_all over stores that can fail
NextFaults ==
    \/ Subscribe("A", TRUE)
    \/ PipelineNext
    \/ \E c \in {"all", "restore"} :
          PsRead(c) \/ PsPersist(c) \/ PsPost(c)
    \/ \E c \in {"all", "restore"} :
          PsReadFails(c) \/ PsPersistFails(c) \/ PsPostFails(c)
    \/ \E p \in SnapshotAllParams : SnapshotAll(p.keep_versions, p.window)
    \/ \E aid \in (0..Len(archives)) \cup {ForeignId} : RestoreLoad(aid)
    \/ RestoreLoadFails
    \/ RestoreGetRoom
    \/ RestoreGetRoomFails
    \/ RestoreApply
    \/ RestoreBroadcast
    \/ RestoreMarkdown
    \/ RestoreMarkdownFails
    \/ RestoreArchive
    \/ RestoreArchiveFails

SpecFaults == InitMain /\ [][NextFaults]_vars

\* the debounced materialization of the updates of one subscriber
InitSave == Init /\ fresh /\ interval = 1

NextSave ==
    \/ Subscribe("A", TRUE)
    \/ \E f \in UpdateFrames : GuardPoll("A", f)
    \/ HandleFrame("A")
    \/ PipelineNext
    \/ \E t \in saveTasks :
          \/ DebounceSet(t)
          \/ DebounceWake(t)
          \/ WmExtract(t)
          \/ WmWrite(t)
          \/ WmWriteUnreadable(t)
          \/ WmWriteFails(t)
    \/ Tick

SpecSave == InitSave /\ [][NextSave]_vars

\* the edit guard and the protocols: A subscribes with can_edit, B without,
\* and the peers send every kind of frame, stream errors and the end of stream
GuardCanEdit == [s \in Subs |-> s = "A"]
GuardItems ==
    UpdateFrames \cup MalformedFrames \cup {Step2Frame(k) : k \in 1..MaxUpdates}
        \cup {AwarenessFrame, Step1Frame, GarbageFrame, StreamError, StreamEnd}

NextGuard ==
    \/ \E s \in Subs : Subscribe(s, GuardCanEdit[s])
    \/ \E s \in Subs, f \in GuardItems : GuardPoll(s, f)
    \/ \E s \in Subs : HandleFrame(s)
    \/ \E b \in BOOLEAN : SetDocumentEditable(b)
    \/ PipelineNext

SpecGuard == InitEdit /\ [][NextGuard]_vars

\* two subscribers whose get_or_create calls may overlap, on a document that
\* started empty
NextRooms ==
    \/ \E s \in Subs : GetOrCreateHit(s) \/ GetOrCreateMiss(s) \/ GetOrCreateInsert(s)
    \/ \E s \in Subs : GetOrCreateAborts(s)
    \/ \E s \in Subs, f \in UpdateFrames : GuardPoll(s, f)
    \/ \E s \in Subs : HandleFrame(s) \/ TwinHandleFrame(s)
    \/ PipelineNext
    \/ TwinNext

SpecRooms == InitEdit /\ [][NextRooms]_vars

\* signed plugin-asset URLs
AssetScopes ==
    {GlobalScope, UserScope(<<"o1">>, FALSE, <<>>), UserScope(<<"o1">>, TRUE, <<>>),
     UserScope(<<"o1">>, TRUE, <<"t">>), UserScope(<<"o2">>, FALSE, <<>>)}
AssetPlugins == {<<"p">>, <<"q">>}
AssetVersions == {<<"1">>, <<"1", ".", "2">>}
AssetPaths == {<<"a">>, <<".", "/", "a">>, <<" ", "/", "a", " ">>, <<"b", "/", "a">>,
               <<".", ".", "/", "a">>}
AssetTtls == {0, 1, 2}

AssetRequests ==
    {AssetRequest(sc, pl, v, pa, e, sg) :
        sc \in {asset.scope, GlobalScope, UserScope(<<"o1">>, TRUE, <<"t">>)},
        pl \in {asset.plugin, <<"p">>}, v \in {asset.version, <<"1">>},
        pa \in {asset.path, <<"a">>, <<".", "/", "a">>}, e \in {asset.exp, asset.exp + 1},
        sg \in {asset.sig, NotBase64,
                SignPayload("other", asset.sig.payload)}}

NextAsset ==
    \/ \E sc \in AssetScopes, pl \in AssetPlugins, v \in AssetVersions,
          pa \in AssetPaths, ttl \in AssetTtls : SignUrl(sc, pl, v, pa, ttl)
    \/ asset.pc = "minted" /\ \E r \in AssetRequests : VerifyCall(r)
    \/ asset.pc = "minted" /\ \E r \in AssetRequests, exists \in BOOLEAN : GetPluginAsset(r, exists)
    \/ UtcTick

SpecAsset == InitEdit /\ [][NextAsset]_vars

\* URLs signed and verified for tuples whose path or share token contains
\* the delimiter, and for an absent and an empty share token
PayloadScopes ==
    {GlobalScope, UserScope(<<"o1">>, FALSE, <<>>), UserScope(<<"o1">>, TRUE, <<>>),
     UserScope(<<"o1">>, TRUE, <<"t">>), UserScope(<<"o1">>, TRUE, <<"2", "|">>)}
PayloadPaths == {<<"a">>, <<".", "/", "a">>, <<"a", "|", "1">>}
PayloadTtls == {1, 2}

PayloadRequests ==
    {AssetRequest(sc, asset.plugin, asset.version, pa, e, asset.sig) :
        sc \in PayloadScopes, pa \in PayloadPaths, e \in 1..(MaxUtc + 1)}

NextPayload ==
    \/ \E sc \in PayloadScopes, pa \in PayloadPaths, ttl \in PayloadTtls :
          SignUrl(sc, <<"p">>, <<"1">>, pa, ttl)
    \/ asset.pc = "minted" /\ \E r \in PayloadRequests : VerifyCall(r)
    \/ UtcTick

SpecPayload == InitEdit /\ [][NextPayload]_vars

\* URLs signed for every kind of path and passed back unchanged
RoundTripScopes == {GlobalScope, UserScope(<<"o1">>, FALSE, <<>>), UserScope(<<"o1">>, TRUE, <<"t">>)}
RoundTripPaths ==
    {<<"a">>, <<".", "/", "a">>, <<".", "/", ".", "/", "a">>, <<" ", "/", "a", " ">>,
     <<"b", "/", "a">>, <<"/", ".", "/", "a">>, <<".", "/", " ", ".", "/", "a">>,
     <<"/", " ", "a">>, <<"a", "|", "b">>, <<".", ".", "/", "a">>, <<"a", "\\", "b">>,
     <<" ", ".", "/">>, <<>>}

NextRoundTrip ==
    \/ \E sc \in RoundTripScopes, pa \in RoundTripPaths, ttl \in AssetTtls :
          SignUrl(sc, <<"p">>, <<"1", ".", "2">>, pa, ttl)
    \/ asset.pc = "minted" /\ VerifyCall(UrlQuery)
    \/ asset.pc = "minted" /\ \E exists \in BOOLEAN : GetPluginAsset(UrlQuery, exists)
    \/ UtcTick

SpecRoundTrip == InitEdit /\ [][NextRoundTrip]_vars

\* direct calls of archive_snapshot
ArchiveBytes ==
    {EncodeStateAsUpdate(d) :
        d \in {EmptyDoc, OldDoc, ApplyUpdate(EmptyDoc, ClientUpdate(1)),
               ApplyUpdate(OldDoc, ClientUpdate(1))}}
ArchiveLabels == {<<"Manual">>, <<"Snapshot ", "ts">>}

NextInsert ==
    \E b \in ArchiveBytes, v \in ArchiveVersions, l \in ArchiveLabels, k \in ArchiveKinds :
        ArchiveCall(b, v, l, k)

SpecInsert == InitEdit /\ [][NextInsert]_vars

(***************************************************************************)
(* Properties.                                                             *)
(***************************************************************************)
\* nothing is in flight: the channel is drained, the tasks of the room are
\* waiting and no operation is running
Quiescent ==
    /\ inner /\ PipelineIdle
    /\ pcP = "recv" /\ hyd.pc = "done"
    /\ creating = {} /\ twin.hyd.pc \in {"none", "done"}
    /\ \A c \in Callers : ps[c].pc = "idle"
    /\ restore.pc = "idle"

Contiguous(l) == \A i \in 1..(Len(l) - 1) : l[i + 1].seq = l[i].seq + 1

C2_CounterAgreesWithLog == Quiescent => seq = StartSeq(log)

\* the client updates that reached the room's replica
Accepted == {k \in 1..Len(sent) : ClientItem(k) \in doc.ins \cup twin.doc.ins}

\* C3: on a document that started empty and whose store does not fail, once
\* the pipeline has drained latest_seq is the number of updates the
\* subscribers sent into the room and each of them is in the log exactly once
C3_AllUpdatesLoggedOnce ==
    (Quiescent /\ fails = 0) =>
        /\ StartSeq(log) = Cardinality(Accepted)
        /\ Len(log) = Cardinality(Accepted)
        /\ \A k \in Accepted :
              Cardinality({i \in 1..Len(log) : log[i].upd = ClientUpdate(k)}) = 1

C3_Witness ==
    /\ Quiescent /\ fails = 0
    /\ Accepted = {1, 2} /\ sent[1] # sent[2]

\* C4: the seqs passed to append_update_with_seq are strictly increasing and
\* the i-th call carries the i-th payload that entered the channel
C4_SeqsFollowChannelOrder ==
    /\ Len(appendCalls) <= Len(pushed)
    /\ \A i \in 1..Len(appendCalls) :
          /\ appendCalls[i].upd = pushed[i]
          /\ i > 1 => appendCalls[i].seq > appendCalls[i - 1].seq

C4_Witness ==
    /\ Len(appendCalls) = 2 /\ Len(sent) = 2 /\ sent[1] # sent[2]
    /\ appendCalls[1].upd # appendCalls[2].upd

\* C5: when restore returns successfully, with no subscriber frame and no
\* update in flight when it started and no client update sent since,
\* get_content is the archive's text, the update log is empty and the newest
\* archive has kind restore, a label starting with "Restore " and the version
\* of the snapshot the restore persisted
C5_RestoreStep ==
    (/\ restore.pc = "archive" /\ restore'.result = "ok"
     /\ restore.quiet /\ restore.sent0 = Len(sent')
     /\ \A s \in Subs : subs'[s].frame = NoFrame) =>
        /\ GetContent' = GetString(restore.src)
        /\ log' = <<>>
        /\ archives'[Len(archives')].kind = "restore"
        /\ archives'[Len(archives')].label[1] = "Restore "
        /\ archives'[Len(archives')].version = LatestSnapshotVersion(snaps')

C5_RestoreRoundTrip == [][C5_RestoreStep]_vars

\* C6: once apply_snapshot has replaced the room's content, and no client
\* update has been handled since the restore started, get_content returns the
\* text of the source replica, also after the room's hydration has completed
C6_ApplyThenGetContent ==
    (/\ restore.pc \in {"snap", "markdown", "archive"}
     /\ restore.quiet /\ restore.sent0 = Len(sent)
     /\ \A s \in Subs : subs[s].frame = NoFrame) =>
        GetContent = GetString(restore.src)

\* C7: an update sent in a frame that was polled while the edit flag was false
\* never reaches the replica or the log (no latest_seq increment), and an
\* awareness frame polled while the flag is false is forwarded
C7_NotApplied ==
    \A k \in roPolled :
        /\ ClientItem(k) \notin doc.ins
        /\ \A i \in 1..Len(appendCalls) : ClientItem(k) \notin appendCalls[i].upd.ins

C7_AwarenessForwarded ==
    \A s \in Subs :
        (~editable /\ GuardPoll(s, AwarenessFrame)) => subs'[s].frame = AwarenessFrame

C7_ReadOnlyDropsUpdates == []C7_NotApplied /\ [][C7_AwarenessForwarded]_vars

\* C8: the stored snapshot versions form a contiguous increasing run, and
\* every snapshot inserted gets the version (latest stored, or 0) + 1
C8_Run == \A i \in 1..(Len(snaps) - 1) : snaps[i + 1].version = snaps[i].version + 1

C8_Insert ==
    Len(snaps') > Len(snaps) =>
        snaps'[Len(snaps')].version =
            (IF snaps = <<>> THEN 0 ELSE LatestSnapshotVersion(snaps)) + 1

C8_VersionsIncrease == []C8_Run /\ [][C8_Insert]_vars

C8_Witness ==
    /\ Len(snaps) = 2 /\ snaps[1].version = 2 /\ snaps[2].version = 3
    /\ ps["all"].pc = "idle"

\* C9: a persist_snapshot call with skip_if_unchanged that follows a
\* successful one with skip_if_unchanged on the same replica state returns
\* persisted = false with the version of the first call and inserts nothing
C9_SecondCallSkips ==
    (/\ ps["api"].pc = "ok" /\ ps["api"].opts.skip_if_unchanged
     /\ apiLast.ok /\ apiLast.skip /\ apiLast.bin = ps["api"].bin) =>
        /\ ~ps["api"].persisted
        /\ ps["api"].version = apiLast.version
        /\ ~ps["api"].inserted

C9_Witness ==
    /\ ps["api"].pc = "ok" /\ ps["api"].opts.skip_if_unchanged
    /\ apiLast.ok /\ apiLast.skip /\ apiLast.bin = ps["api"].bin
    /\ ps["api"].bin # EmptyDoc /\ ps["api"].version = 1

\* C10: when the snapshot store's persist fails the call returns the error,
\* nothing was inserted, none of clear_updates, prune_snapshots and
\* prune_updates_before is invoked, and the failing step leaves the update
\* log and the snapshots as they were
C10_Frame ==
    \A c \in Callers :
        ps[c].persistFailed =>
            ps[c].pc = "err" /\ ps[c].touched = {} /\ ~ps[c].inserted

C10_FailingStep ==
    \A c \in Callers :
        (~ps[c].persistFailed /\ ps'[c].persistFailed) => log' = log /\ snaps' = snaps

C10_PersistFailureAborts == []C10_Frame /\ [][C10_FailingStep]_vars

C10_Witness ==
    /\ ps["api"].persistFailed /\ ps["api"].opts.clear_updates
    /\ ps["api"].opts.prune_snapshots # None /\ ps["api"].opts.prune_updates_before # None
    /\ log # <<>> /\ snaps # <<>>

\* C11: the record of every archive created by archive_snapshot has the
\* sha256 of the stored bytes as content_hash, their length as byte_size and
\* the version that the caller passed
C11_ArchiveRecordMatchesInput ==
    archived.called =>
        /\ archived.record.content_hash = Sha256Hex(archived.record.bytes)
        /\ archived.record.byte_size = ByteLen(archived.record.bytes)
        /\ archived.record.bytes = archived.bytes
        /\ I64(archived.record.version) = archived.version

\* C12: with auto_archive_interval = 0, once the update with a seq that is a
\* multiple of 100 has been appended and the persistence task is back at its
\* receive, an archive created by the task exists with kind automatic and a
\* label "Snapshot <UTC timestamp>"
C12_AutoArchiveEveryHundred ==
    (/\ interval = 0 /\ fails = 0 /\ pcP = "recv"
     /\ \E i \in 1..Len(appendCalls) :
           appendCalls[i].ok /\ appendCalls[i].seq % ArchiveEvery = 0) =>
        \E j \in 2..Len(archives) :
            /\ archives[j].kind = "automatic"
            /\ archives[j].label = <<"Snapshot ", "ts">>

\* C13: a debounce task starts the materialization only when no update has
\* been observed for 600 ms, and the task that starts it is the last one
\* scheduled (one materialization for a burst of updates)
C13_OneRunPerQuietPeriod ==
    \A i \in 1..Len(runs) :
        /\ runs[i].quiet >= DebounceMs
        /\ runs[i].task = runs[i].last

\* every debounce task has finished and nothing is on its way to the replica
SaveQuiescent ==
    /\ saveTasks = {}
    /\ \A s \in Subs : subs[s].frame = NoFrame
    /\ hyd.pc \in {"none", "done"}

\* C14: once the updates of a document (not a folder) have been observed and
\* the debounce tasks have finished without a failure, the file is the
\* front-matter followed by the replica's text with a terminating newline
C14_FileFollowsReplica ==
    (SaveQuiescent /\ fails = 0 /\ docType = "document" /\ spawned > 0) =>
        file = FormatMarkdown(GetString(doc))

\* C15: of two write_markdown calls in a row with the same bytes to write the
\* second writes nothing and leaves the file as it is, and a call writes only
\* when the existing bytes differ from its bytes or cannot be read
C15_TwiceInARow ==
    \A i \in 1..(Len(wmLog) - 1) :
        (/\ wmLog[i].ok /\ wmLog[i + 1].ok /\ wmLog[i + 1].read
         /\ wmLog[i].bytes # <<>> /\ wmLog[i + 1].bytes = wmLog[i].bytes) =>
            ~wmLog[i + 1].written /\ wmLog[i + 1].before = wmLog[i].bytes

C15_WriteStep ==
    Len(wmLog') > Len(wmLog) =>
        /\ wmLog'[Len(wmLog')].written =>
               (wmLog'[Len(wmLog')].before # wmLog'[Len(wmLog')].bytes
                \/ ~wmLog'[Len(wmLog')].read)
        /\ ~wmLog'[Len(wmLog')].written => file' = file
        /\ file' \in {file, wmLog'[Len(wmLog')].bytes}

C15_WriteMarkdownIdempotent == []C15_TwiceInARow /\ [][C15_WriteStep]_vars

C15_Witness ==
    /\ Len(wmLog) = 2 /\ wmLog[1].written /\ wmLog[1].ok
    /\ wmLog[2].bytes = wmLog[1].bytes /\ wmLog[2].read /\ ~wmLog[2].written
    /\ file = wmLog[1].bytes


(***************************************************************************)
(* Signed asset URLs.                                                      *)
(***************************************************************************)
MintedParts ==
    PayloadParts(asset.scope, asset.plugin, asset.version,
                 NormalizeAssetPath(asset.path), asset.exp)
RequestParts ==
    PayloadParts(asset.req.scope, asset.req.plugin, asset.req.version,
                 NormalizeAssetPath(asset.req.path), asset.req.exp)
DifferingParts == {i \in 1..7 : MintedParts[i] # RequestParts[i]}
SameParameters ==
    /\ asset.req.scope = asset.scope /\ asset.req.plugin = asset.plugin
    /\ asset.req.version = asset.version /\ asset.req.path = asset.path
    /\ asset.req.exp = asset.exp

\* C16: verify_url called with the parameters of sign_url and the minted
\* signature, with the expiry still in the future, returns true; called with
\* the minted signature and a payload in which a single component (scope,
\* owner, plugin id, version, normalized path, expiry or share token) differs
\* from the minted one, it returns false.
C16_VerifyAcceptsOnlyMinted ==
    asset.pc = "verified" /\ asset.req.sig = asset.sig =>
        /\ SameParameters /\ asset.exp > asset.at2 => asset.result = TRUE
        /\ Cardinality(DifferingParts) = 1 \/ 1 \in DifferingParts
              => asset.result = FALSE

\* a URL minted for a path that is not in normal form verifies with the very
\* same parameters after the clock has moved, before the expiry
C16_Witness ==
    /\ asset.pc = "verified" /\ asset.req.sig = asset.sig /\ SameParameters
    /\ asset.path # NormalizeAssetPath(asset.path)
    /\ asset.scope.tag = "user" /\ asset.scope.some
    /\ asset.at2 > asset.at /\ asset.exp > asset.at2
    /\ asset.result = TRUE

\* C17: verify_url returns false whenever expires_at <= now, whatever the
\* signature; it returns false for a signature that is not base64url; and
\* the asset endpoint answers with the file only if verify_url returned true.
C17_ExpiredOrMalformedRejected ==
    /\ asset.pc = "verified" /\ asset.req.exp <= asset.at2 => asset.result = FALSE
    /\ asset.pc = "verified" /\ ~asset.req.sig.b64 => asset.result = FALSE
    /\ asset.pc = "answered" /\ asset.response.status = "ok"
          => asset.response.verified = "true" /\ asset.direct = TRUE

\* the minted URL itself, presented once its expiry has passed
C17_Witness ==
    /\ asset.pc = "verified" /\ asset.req.sig = asset.sig /\ SameParameters
    /\ asset.exp > asset.at /\ asset.exp <= asset.at2
    /\ asset.result = FALSE


(***************************************************************************)
(* The persistence task under failures.                                    *)
(***************************************************************************)
\* C18: a failure of the log append, of persist_snapshot or of
\* archive_snapshot in the persistence task does not stop the task: every
\* update that enters the channel, also after a failure, is received with the
\* next sequence number and append_update_with_seq is called for it.
C18_TaskSurvivesFailures ==
    /\ [][pcP = "recv" /\ pcP' = "append" => cur'.s = seq + 1 /\ seq' = seq + 1]_vars
    /\ \A n \in 1..MaxUpdates : (Len(pushed) >= n) ~> (Len(appendCalls) >= n)

\* the store failed the append of the first update, and
\* append_update_with_seq was called for the second update with the next
\* sequence number
C18_Witness ==
    /\ fails >= 1 /\ Len(appendCalls) = 2
    /\ ~appendCalls[1].ok /\ ~AppendOutOfOrder(OldLog(ArchiveEvery - 1), appendCalls[1].seq)
    /\ appendCalls[2].seq = appendCalls[1].seq + 1
    /\ appendCalls[2].upd # appendCalls[1].upd


(***************************************************************************)
(* RestoreSnapshot: refusals and failures.                                 *)
(***************************************************************************)
C19_CallReturnsAtOnce == ops'["op"] = ops["op"] + 1 /\ restore' # restore /\ restore'.pc = "idle"
C19_CallFails == restore.pc \notin {"idle"} /\ restore'.pc = "idle" /\ restore'.result = "err"
C19_RestoreArchiveAdded ==
    /\ Len(archives') = Len(archives) + 1
    /\ archives'[Len(archives')].kind = KindStr("Restore")

C19_Step ==
    /\ C19_CallReturnsAtOnce =>
          /\ UNCHANGED <<roomVars, storeVars, subVars, ps>>
          /\ restore'.result \in {"notfound", "mismatch", "err"}
          /\ restore'.result = "notfound" <=>
                fails' = fails /\ restore'.aid # ForeignId /\ restore'.aid \notin 1..Len(archives)
          /\ restore'.result = "mismatch" <=> fails' = fails /\ restore'.aid = ForeignId
    /\ restore.pc = "idle" /\ restore'.pc = "room" => restore'.aid \in 1..Len(archives)
    /\ restore.pc \in {"room", "markdown", "archive"} /\ fails' = fails + 1 /\ restore' # restore
          => restore'.result = "err" /\ restore'.pc = "idle"
    /\ restore.pc = "snap" /\ ps'["restore"].pc = "err"
          => restore'.result = "err" /\ restore'.pc = "idle"
    /\ C19_CallFails => archives' = archives
    /\ C19_RestoreArchiveAdded =>
          restore.pc = "archive" /\ restore'.result = "ok" /\ fails' = fails

\* C19: RestoreSnapshot returns Ok(None) for an unknown archive id and an
\* error for an archive of another document, in both cases without changing
\* the replica, the stores or the file; a failure of apply_snapshot,
\* persist_snapshot, write_markdown or archive_snapshot is returned as the
\* call's error, and a restore archive is created only by a call none of
\* whose steps failed.
C19_RestoreRefusesAndPropagates == [][C19_Step]_vars

\* the archive of another document was refused
C19_Witness ==
    /\ restore.pc = "idle" /\ restore.result = "mismatch" /\ restore.aid = ForeignId
    /\ archives # <<>> /\ \A i \in 1..Len(archives) : archives[i].kind # KindStr("Restore")


(***************************************************************************)
(* Rooms per document.                                                     *)
(***************************************************************************)
\* C20: a document has at most one room: no get_or_create call builds a
\* second room, with its own replica, persistence task and seq counter,
\* while a room of the document exists.
C20_OneRoomPerDocument == ~(inner /\ twin.on)

\* C4, for the rooms of one document taken together: the seqs passed to
\* append_update_with_seq for the document are strictly increasing in the
\* order of the calls.
C4_SeqsIncreasePerDocument ==
    \A i \in 2..Len(appendCalls) : appendCalls[i].seq > appendCalls[i - 1].seq


(***************************************************************************)
(* The persisted state after a restore.                                    *)
(***************************************************************************)
\* the replica a restart rebuilds: latest snapshot plus the remaining log
Rebuilt == HydrateDoc(snaps, log)

\* an update that removes content: only apply_snapshot's replacement does
IsReplacement(u) == u.del # {}

\* C21: once RestoreSnapshot has returned successfully and the pipeline has
\* drained, with no store failure, the document rebuilt from the latest
\* snapshot and the remaining log has the text of the live replica, and the
\* log holds no replacement update of apply_snapshot.
C21_RestoredStateSurvivesRestart ==
    (Quiescent /\ restore.result = "ok" /\ fails = 0) =>
        /\ GetString(Rebuilt) = GetString(doc)
        /\ \A i \in 1..Len(log) : ~IsReplacement(log[i].upd)


(***************************************************************************)
(* What snapshot_all removes.                                              *)
(***************************************************************************)
Covers(d, u) == u.ins \subseteq d.ins /\ u.del \subseteq d.del

\* C22: every log entry removed by a store call of snapshot_all is contained
\* in the snapshot that call persisted, and no store call of snapshot_all
\* takes content out of the replica rebuilt from the latest snapshot and the
\* remaining log.
C22_Step ==
    ps["all"].pc \in {"persist", "prune_s", "prune_u"} /\ ps'["all"] # ps["all"] =>
        /\ \A i \in 1..Len(log) :
              (\A j \in 1..Len(log') : log'[j] # log[i]) => Covers(ps["all"].bin, log[i].upd)
        /\ Covers(HydrateDoc(snaps', log'), Rebuilt)

C22_SnapshotAllKeepsContent == [][C22_Step]_vars

\* C23: what the edit guard does with each item of the peer's stream: while
\* the flag is false a frame that decodes and contains a sync update or a
\* sync step 2 is dropped and the stream continues, a frame of awareness
\* messages only or a frame that does not decode is forwarded unchanged;
\* while the flag is true every frame is forwarded; a stream error and the
\* end of the stream are passed through whatever the flag
Decodes(f) == \A i \in 1..Len(Messages(f)) : Messages(f)[i] # "Garbage"
HasSyncMessage(f) == \E i \in 1..Len(Messages(f)) : Messages(f)[i] \in {"Update", "SyncStep2"}
AwarenessOnly(f) ==
    Messages(f) # <<>> /\ \A i \in 1..Len(Messages(f)) : Messages(f)[i] = "Awareness"

C23_Step ==
    \A s \in Subs, f \in GuardItems :
        GuardPoll(s, f) =>
            /\ StreamClosed(f) => subs'[s].frame = f
            /\ (~StreamClosed(f) /\ editable) => subs'[s].frame = f
            /\ (~StreamClosed(f) /\ ~editable /\ Decodes(f) /\ HasSyncMessage(f)) =>
                  subs'[s] = subs[s]
            /\ (~StreamClosed(f) /\ ~editable /\ (AwarenessOnly(f) \/ ~Decodes(f))) =>
                  subs'[s].frame = f

C24_Attach ==
    \A s \in Subs :
        (~subs[s].on /\ subs'[s].on) => (subs'[s].ro <=> ~(GuardCanEdit[s] /\ editable))

C24_Handle ==
    \A s \in Subs :
        (subs[s].on /\ subs[s].ro /\ subs[s].frame # NoFrame /\ subs'[s] # subs[s]) =>
            doc' = doc /\ sendq' = sendq /\ seq' = seq

C24_NeverLogged ==
    \A k \in 1..Len(sent) :
        ~GuardCanEdit[sent[k]] =>
            /\ ClientItem(k) \notin doc.ins
            /\ \A i \in 1..Len(appendCalls) : ClientItem(k) \notin appendCalls[i].upd.ins

C24_ReadOnlyProtocol == []C24_NeverLogged /\ [][C24_Attach /\ C24_Handle]_vars

\* a subscription made with can_edit while the document was not editable
\* sent an update after the document became editable; the guard forwarded
\* it and the protocol consumed it
C24_Witness ==
    /\ editable /\ subs["A"].on /\ subs["A"].ro /\ subs["A"].frame = NoFrame
    /\ sent # <<>> /\ sent[Len(sent)] = "A" /\ Len(sent) \notin roPolled
    /\ ClientItem(Len(sent)) \notin doc.ins

\* C25: while the flag is false the guard never forwards a frame in which
\* some successfully decoded message is a sync update or a sync step 2,
\* also when later bytes of the frame fail to decode
DecodedSyncMessage(f) ==
    \E i \in 1..Len(Messages(f)) :
        /\ Messages(f)[i] \in {"Update", "SyncStep2"}
        /\ \A j \in 1..i : Messages(f)[j] # "Garbage"

C25_Step ==
    \A s \in Subs, f \in GuardItems :
        (GuardPoll(s, f) /\ ~editable /\ ~StreamClosed(f) /\ DecodedSyncMessage(f)) =>
            subs'[s].frame # f

C25_NoUpdateForwarded == [][C25_Step]_vars

\* C26: the persistence task reaches the auto-archive gate only for a seq
\* that is a multiple of 100 with a positive interval; the gate triggers
\* persist_snapshot(clear_updates = false) followed by archive_snapshot(kind
\* automatic) exactly when no trigger is recorded or the recorded one is at
\* least the interval old, and records the instant before triggering, so two
\* automatic archives are triggered at least the interval apart
C26_AtGate ==
    /\ pcP \in {"gate", "snap"} => (cur.s % ArchiveEvery = 0 /\ interval > 0)
    /\ pcP = "snap" => (lastAuto # None /\ ~ps["task"].opts.clear_updates)

C26_Append ==
    (pcP = "append" /\ pcP' # "append") =>
        (pcP' = "gate" <=> (cur.s % ArchiveEvery = 0 /\ interval > 0))

C26_Trigger ==
    (pcP = "gate" /\ pcP' # "gate") =>
        /\ pcP' = "snap" <=> (lastAuto = None \/ now' - lastAuto >= interval)
        /\ pcP' = "snap" => (lastAuto' = now' /\ ps'["task"] = PsCall(doc, DefaultOptions))
        /\ pcP' # "snap" => (pcP' = "recv" /\ lastAuto' = lastAuto /\ ps' = ps)
        /\ archives' = archives /\ snaps' = snaps

C26_Archive ==
    Len(archives') > Len(archives) =>
        /\ pcP = "snap" /\ ps["task"].pc = "ok"
        /\ archives' = ArchiveSnapshot(archives, ps["task"].bin, ps["task"].version,
                                       archives'[Len(archives')].label, "Automatic")

C26_AutoArchiveGate == []C26_AtGate /\ [][C26_Append /\ C26_Trigger /\ C26_Archive]_vars

\* the hub that archived at instant 0 archived again at instant 1 = 0 + interval
C26_Witness ==
    /\ lastAuto = 1 /\ interval = 1 /\ seq = 2 * ArchiveEvery /\ pcP = "recv"
    /\ Len(archives) = 3
    /\ archives[2].kind = archives[3].kind

\* C27: get_or_create returns the registered room when there is one, a
\* registered room stays the registered room of its document (no operation
\* removes it from the map), and a get_or_create call that fails registers
\* no room
Registered == IF twin.on THEN "second" ELSE IF inner THEN "first" ELSE "none"

C27_Step ==
    /\ Registered # "none" => Registered' = Registered
    /\ \A s \in Subs :
          /\ (~subs[s].on /\ s \notin creating /\ subs'[s].on) =>
                (s \in twin'.members <=> Registered = "second")
          /\ (s \in creating /\ s \notin creating' /\ ~subs'[s].on) =>
                Registered' = Registered

C27_RoomRetained == [][C27_Step]_vars

\* C28: a room's seq counter starts at the latest seq of the document's log,
\* 0 for an empty log, also when the room is built over a log left by an
\* earlier run; afterwards it never decreases: the persistence task adds one
\* per update it receives and the hydration raises it to
\* max(current, hydrated last_seq)
LogLatestSeq(l) ==
    IF l = <<>> THEN 0
    ELSE CHOOSE m \in {l[i].seq : i \in 1..Len(l)} : \A i \in 1..Len(l) : l[i].seq <= m

C28_Step ==
    /\ (~inner /\ inner') => seq' = LogLatestSeq(log)
    /\ inner => seq' >= seq
    /\ (inner /\ chan' # chan /\ Len(chan') < Len(chan)) => seq' = seq + 1
    /\ (hyd.pc = "seq" /\ hyd'.pc = "done") =>
          seq' = (IF hyd.last > seq THEN hyd.last ELSE seq)
    /\ (inner /\ seq' # seq) =>
          \/ Len(chan') < Len(chan)
          \/ hyd.pc = "seq" /\ hyd'.pc = "done"

C28_SeqNeverDecreases == [][C28_Step]_vars

\* a room built over a log left at seq 1 received an update before its
\* hydration finished; the hydration left the counter at 2
C28_Witness ==
    /\ ~fresh /\ inner /\ hyd.pc = "done" /\ seq = 2
    /\ \E i \in 1..Len(appendCalls) : appendCalls[i].seq = 2 /\ appendCalls[i].ok

\* C29: on a document with stored content, as long as no client has sent an
\* update and no snapshot_all or restore has run, the room's creation and
\* hydration pass nothing to append_update_with_seq, and the room's counter
\* is the latest seq of the log
C29_HydrationAppendsNothing ==
    (~fresh /\ inner /\ sent = <<>> /\ ops["op"] = 0) =>
        /\ appendCalls = <<>>
        /\ pcP = "recv" => seq = LogLatestSeq(log)

\* C30: updates are appended in the order in which they were applied to the
\* replica: of two updates sent one after the other by one subscriber, whose
\* frames are handled in that order, the first gets the smaller seq
C30_LogOrderIsObservationOrder ==
    \A k1, k2 \in 1..Len(sent) :
        (k1 < k2 /\ sent[k1] = sent[k2]) =>
            \A i, j \in 1..Len(appendCalls) :
                (appendCalls[i].upd = ClientUpdate(k1) /\ appendCalls[j].upd = ClientUpdate(k2)) =>
                    appendCalls[i].seq < appendCalls[j].seq

\* C31: snapshot_all calls persist_snapshot on the room's replica with
\* prune_snapshots = keep_versions, prune_updates_before = max(0, latest_seq -
\* updates_keep_window), latest_seq being the counter read while no task holds
\* the seq mutex, and without clear_updates; no step of the call removes a
\* log entry whose seq is at least the cutoff
C31_Call ==
    (ps["all"].pc = "idle" /\ ps'["all"].pc # "idle") =>
        /\ SeqLockFree
        /\ ps'["all"].pc = "read" /\ ps'["all"].bin = EncodeStateAsUpdate(doc)
        /\ ~ps'["all"].opts.clear_updates
        /\ \E p \in SnapshotAllParams :
              /\ ps'["all"].opts.prune_snapshots = p.keep_versions
              /\ ps'["all"].opts.prune_updates_before =
                    (IF seq - p.window > 0 THEN seq - p.window ELSE 0)

C31_Steps ==
    (ps["all"].pc # "idle" /\ ps'["all"] # ps["all"]) =>
        /\ ps["all"].pc # "clear"
        /\ \A i \in 1..Len(log) :
              log[i].seq >= ps["all"].opts.prune_updates_before =>
                  \E j \in 1..Len(log') : log'[j] = log[i]

Delivered(n) ==
    [ins |-> UNION {bcast[i].upd.ins : i \in 1..n},
     del |-> UNION {bcast[i].upd.del : i \in 1..n}]

IsReplacementFrame(f) == f.src = "explicit"

C34_SeqLockNotHeldAcrossAwait ==
    pcP \in {"append", "gate", "snap"} => SeqLockFree

\* C35: no task waits forever for the seq mutex: the persistence task
\* releases it, the hydration task that waits for it finishes, and
\* snapshot_all returns; the auto-archive map mutex is taken only by the
\* persistence task while it holds the seq mutex, and nothing is acquired
\* while the map mutex is held
C35_LockOrder ==
    lastAuto' # lastAuto => (pcP = "gate" /\ ~SeqLockFree /\ seq' = seq /\ hyd' = hyd)

C36_FlagFollowsArchive == editable = ~archived_at

\* the tuple that a payload is built from: scope with owner and share token
\* (absent or present), plugin id, version, normalized path and expiry
SignedTuple(scope, plugin_id, version, path, expires_at) ==
    <<scope, plugin_id, version, NormalizeAssetPath(path), expires_at>>

\* C37: the payload is injective: a signature minted for one tuple verifies
\* only for the same tuple, also when a path or a share token contains the
\* delimiter and when the share token is absent rather than empty
C37_PayloadInjective ==
    (asset.pc = "verified" /\ asset.result) =>
        SignedTuple(asset.req.scope, asset.req.plugin, asset.req.version,
                    asset.req.path, asset.req.exp)
          = SignedTuple(asset.scope, asset.plugin, asset.version, asset.path, asset.exp)

\* C38: the URL minted by sign_url verifies when its query parameters are
\* passed unchanged to verify_url before the expiry, for every input path
C38_SignedUrlVerifies ==
    (asset.pc = "verified" /\ asset.req = UrlQuery /\ asset.exp > asset.at2) =>
        asset.result

\* C39: sign_url signs the path trimmed, stripped of its "./" prefixes and
\* of its leading "/" and trimmed again, and mints no URL for a path that
\* contains ".." or a backslash or that normalizes to the empty string
C39_SignUrlRejectsUnsafePaths ==
    asset.pc = "minted" =>
        /\ asset.sig = SignPayload(SignerKey,
                BuildPayload(asset.scope, asset.plugin, asset.version,
                             Trim(TrimStartSlash(StripDotSlash(Trim(asset.path)))),
                             asset.exp))
        /\ Trim(TrimStartSlash(StripDotSlash(Trim(asset.path)))) # <<>>
        /\ ~ContainsDotDot(asset.path)
        /\ ~Contains(asset.path, "\\")

\* the conversions whose closure runs with the working directory changed
InChangedDir == {c \in Convs : conv[c].pc \in {"run", "drop"}}

C40_Exclusive ==
    /\ Cardinality(InChangedDir) <= 1
    /\ \A c \in InChangedDir : workdir_lock = c
    /\ ~restoreFailed =>
          \A c \in Convs : conv[c].original \notin {ResourceDir(d) : d \in Convs}

C40_Release ==
    \A c \in Convs :
        (workdir_lock = c /\ workdir_lock' = "free" /\ ~restoreFailed') =>
            cwd = conv[c].prior

====
